---- MODULE Spec2Model ----
(***************************************************************************)
(* Backtracking parser-combinator engine of LazyIterator:                  *)
(* Stream.hh (cursor, skip policies), ParserLibrary.hh (primitive          *)
(* parsers), ParserCombinators.hh (alternative, chain, many),              *)
(* ParserBasics.hh (semantic action, deferred parser).                     *)
(*                                                                         *)
(* A grammar is a tree of nodes.  Combinators hold their children by value *)
(* (parser_traits::pass_type), so every position of a grammar expression   *)
(* is an object of its own, identified here by its path below its owner;   *)
(* only a DeferredParser is held by reference and so shared.               *)
(***************************************************************************)
EXTENDS Integers, Sequences, FiniteSets, TLC

VARIABLES
    gname,  \* the grammar object under test (a key of the catalogue)
    st,     \* engine state: buffer, cursor, every node's members, abort flag
    op,     \* the last top-level call: "init", "next", "parse", "unparse", "result", "rewind",
            \* "stray", "assign", "put", "skip", "unskip", "take", "step", "undo"
    ret,    \* what the last top-level parse returned: "none", "true", "false"
    pre,    \* history: cursor and node members right before the last top-level call
    pend,   \* history: pre-states of the successful top-level parses not yet undone
    out,    \* the value the last top-level getResult handed over
    nops,   \* number of top-level calls made so far
    runs    \* the runs of the grammar object on cursors of their own that are
            \* interleaved (none while one cursor is used: <<>>)

vars == <<gname, st, op, ret, pre, pend, out, nops, runs>>

----------------------------------------------------------------------------
(* Bounds of the model *)

MaxLen == 3        \* longest input buffer
MaxOps == 3        \* top-level calls in one behaviour
MaxSteps == 60     \* node calls one top-level call may make before it counts as not returning
BraceLen == 7      \* longest input buffer of the brace grammar
ArithLeaves == 3   \* most operands of an arithmetic input
ArithNegs == 1     \* most negations of an arithmetic input
ArithSteps == 30000 \* MaxSteps for the brace and arithmetic grammars, which backtrack more
ListLen == 3       \* most integers of a list input
RaceLen == 2       \* longest input buffer of each of two interleaved runs

----------------------------------------------------------------------------
(* Result values (YieldResultPtr): a tagged tuple, Null for nullptr *)

Null == <<"null">>
IntV(n) == <<"Int", n>>
StrV(s) == <<"String", s>>
TupV(es) == <<"Tuple", es>>
NegV(l) == <<"negate", l>>
AddV(l, r) == <<"+", l, r>>
MulV(l, r) == <<"*", l, r>>

NullTuple(n) == [i \in 1..n |-> Null]

----------------------------------------------------------------------------
(* Grammar expressions.  sp is the skip policy of a primitive:             *)
(* TRUE = SkipPolicySpace (the default), FALSE = SkipPolicyNone.           *)

Chr(c) == [k |-> "chr", c |-> c, sp |-> TRUE]
ChrN(c) == [k |-> "chr", c |-> c, sp |-> FALSE]
Str(s) == [k |-> "str", s |-> s, sp |-> TRUE]
StrN(s) == [k |-> "str", s |-> s, sp |-> FALSE]
PInt == [k |-> "int", sp |-> TRUE]
PLit == [k |-> "lit", sp |-> TRUE]
PEnd == [k |-> "end", sp |-> TRUE]
PEndN == [k |-> "end", sp |-> FALSE]
Eps == [k |-> "eps"]
Alt(a, b) == [k |-> "alt", a |-> a, b |-> b]
Chain(a, b) == [k |-> "seq", a |-> a, b |-> b]
Many(p) == [k |-> "many", a |-> p]
Sem(p, f) == [k |-> "sem", a |-> p, f |-> f]
Ref(d) == [k |-> "ref", d |-> d]
Maybe(p) == Chain(p, Eps)
(* a variant of manyIndeed that is many alone, under an empty first part *)
ManyAlone(p) == Chain(Eps, Many(p))
ManyIndeed(p) == Chain(p, Many(p))

Space == {" ", "\t", "\n"}
Digits == {"0", "1", "2", "3", "4", "5", "6", "7", "8", "9"}
DigitVal(c) == CASE c = "0" -> 0 [] c = "1" -> 1 [] c = "2" -> 2 [] c = "3" -> 3
                 [] c = "4" -> 4 [] c = "5" -> 5 [] c = "6" -> 6 [] c = "7" -> 7
                 [] c = "8" -> 8 [] c = "9" -> 9
Quote == "\""

----------------------------------------------------------------------------
(* Engine state.                                                           *)
(*   buf    the input string s_ as a sequence of one-character strings     *)
(*   pos    cur_pos.  cur_pos and ParserMany::count_ are std::size_t; the  *)
(*          model keeps of each the representative modulo 2^64 nearest to  *)
(*          0, so -1 stands for 2^64 - 1 (the value 0 - 1 wraps to)        *)
(*   junk   the byte a read outside the buffer finds (undefined behaviour) *)
(*   ns     the members of every node, by node identity                    *)
(*   err    "" while the program runs; the failed assertion once it aborts,*)
(*          "runaway" once a top-level call exceeds lim node calls         *)
(*   steps  node calls made by the current top-level call                  *)
(*   lim    the number of node calls after which a call counts as runaway  *)
(*   log    history: one event per node call that returned, in order, and  *)
(*          one for the call whose assertion stopped the program           *)
(*   hist   whether log is kept (it is for the small grammars)             *)

Abort(e, why) == IF e.err # "" THEN e ELSE [e EXCEPT !.err = why]

Tick(e) ==
    IF e.err # "" THEN e
    ELSE IF e.steps >= e.lim THEN [e EXCEPT !.err = "runaway"]
    ELSE [e EXCEPT !.steps = @ + 1]

Emit(e, ev) == IF e.err # "" \/ ~e.hist THEN e ELSE [e EXCEPT !.log = Append(@, ev)]

(* StreamAdapter::next: the comparison is unsigned, so a wrapped cur_pos   *)
(* whose sum is still wrapped is larger than any size                      *)
StreamNext(e, n) ==
    LET sum == e.pos + n IN
    IF sum >= 0 /\ sum <= Len(e.buf)
    THEN [p |-> TRUE, at |-> e.pos, e |-> [e EXCEPT !.pos = sum]]
    ELSE [p |-> FALSE, at |-> 0, e |-> e]

(* StreamAdapter::put: assert(cur_pos >= 0) on a std::size_t never fails   *)
StreamPut(e, n) == [e EXCEPT !.pos = @ - n]

(* *p for the pointer next() returned for offset at *)
Deref(e, at) == IF at >= 0 /\ at < Len(e.buf) THEN e.buf[at + 1] ELSE e.junk

Slice(e, at, n) == [i \in 1..n |-> Deref(e, at + i - 1)]

Push(s, x) == Append(s, x)
Top(s) == s[Len(s)]
Pop(s) == SubSeq(s, 1, Len(s) - 1)

(* SkipPolicySpace::counts_ of the primitive id *)
PushSkip(id, e, count) == [e EXCEPT !.ns[id].skp = Push(@, count)]

(* the loop of SkipPolicySpace::skip, entered with count bytes consumed *)
RECURSIVE SkipRun(_, _)
SkipRun(e, count) ==
    LET r == StreamNext(e, 1) IN
    IF r.p /\ Deref(r.e, r.at) \in Space
    THEN SkipRun(r.e, count + 1)
    ELSE [e |-> IF r.p THEN StreamPut(r.e, 1) ELSE r.e, count |-> count]

(* a variant of skip whose count starts at 0, so the first blank is not    *)
(* counted                                                                 *)
SkipSpaceMiscount(id, e) ==
    LET r == StreamNext(e, 1) IN
    IF ~r.p \/ Deref(r.e, r.at) \notin Space
    THEN PushSkip(id, IF r.p THEN StreamPut(r.e, 1) ELSE r.e, 0)
    ELSE LET w == SkipRun(r.e, 0) IN PushSkip(id, w.e, w.count)

(* a variant of skip that consumes no blank *)
SkipNothing(id, e) == PushSkip(id, e, 0)

SkipSpace(id, e) ==
    LET r == StreamNext(e, 1) IN
    IF ~r.p \/ Deref(r.e, r.at) \notin Space
    THEN PushSkip(id, IF r.p THEN StreamPut(r.e, 1) ELSE r.e, 0)
    ELSE LET w == SkipRun(r.e, 1) IN PushSkip(id, w.e, w.count)

(* a variant of unskip that pops nothing and puts nothing back *)
UnskipNothing(id, e) == e

UnskipSpace(id, e) ==
    IF e.ns[id].skp = <<>> THEN Abort(e, "assert:unskip")
    ELSE LET count == Top(e.ns[id].skp)
             e1 == [e EXCEPT !.ns[id].skp = Pop(@)]
         IN  IF count # 0 THEN StreamPut(e1, count) ELSE e1

(* skipper_.skip / skipper_.unskip under the primitive's SkipPolicy *)
Skip(g, id, e) == IF g.sp THEN SkipSpace(id, e) ELSE e
Unskip(g, id, e) == IF g.sp THEN UnskipSpace(id, e) ELSE e

(* what a parse call hands back: its return value, the state it leaves, and *)
(* for the history the branch or count it recorded                         *)
RetX(ok, e, x) == [ok |-> ok /\ e.err = "", e |-> e, x |-> x]
Ret(ok, e) == RetX(ok, e, 0)

----------------------------------------------------------------------------
(* Primitive parsers (ParserLibrary.hh) *)

ParseChar(g, id, e) ==
    LET e1 == Skip(g, id, e)
        r == StreamNext(e1, 1)
    IN  IF ~r.p THEN Ret(FALSE, Unskip(g, id, r.e))
        ELSE IF Deref(r.e, r.at) # g.c
             THEN Ret(FALSE, Unskip(g, id, StreamPut(r.e, 1)))
             ELSE Ret(TRUE, r.e)

(* a variant of ParserChar::unparse that forgets stream.put(1) *)
UnparseCharStay(g, id, e) == Unskip(g, id, e)

UnparseChar(g, id, e) == Unskip(g, id, StreamPut(e, 1))

(* a variant of ParserString::parse that matches only when the string is   *)
(* the last of the input                                                   *)
ParseStringWhole(g, id, e) ==
    LET e1 == Skip(g, id, e)
        n == Len(g.s)
        r == StreamNext(e1, n)
    IN  IF ~r.p THEN Ret(FALSE, Unskip(g, id, r.e))
        ELSE IF Slice(r.e, r.at, n) # g.s \/ r.e.pos # Len(r.e.buf)
             THEN Ret(FALSE, Unskip(g, id, StreamPut(r.e, n)))
             ELSE Ret(TRUE, [r.e EXCEPT !.ns[id].res = StrV(g.s)])

ParseString(g, id, e) ==
    LET e1 == Skip(g, id, e)
        n == Len(g.s)
        r == StreamNext(e1, n)
    IN  IF ~r.p THEN Ret(FALSE, Unskip(g, id, r.e))
        ELSE IF Slice(r.e, r.at, n) # g.s
             THEN Ret(FALSE, Unskip(g, id, StreamPut(r.e, n)))
             ELSE Ret(TRUE, [r.e EXCEPT !.ns[id].res = StrV(g.s)])

UnparseString(g, id, e) == Unskip(g, id, StreamPut(e, Len(g.s)))

(* the digit loop of ParserInt::parse *)
RECURSIVE IntRun(_, _, _)
IntRun(e, count, num) ==
    LET r == StreamNext(e, 1) IN
    IF ~r.p THEN [e |-> r.e, count |-> count, num |-> num]
    ELSE IF Deref(r.e, r.at) \in Digits
         THEN IntRun(r.e, count + 1, 10 * num + DigitVal(Deref(r.e, r.at)))
         ELSE [e |-> StreamPut(r.e, 1), count |-> count, num |-> num]

(* a variant of ParserInt::parse that forgets skipper_.unskip when it fails *)
ParseIntNoUnskip(g, id, e) ==
    LET e1 == Skip(g, id, e)
        r == StreamNext(e1, 1)
    IN  IF ~r.p \/ Deref(r.e, r.at) \notin Digits
        THEN Ret(FALSE, IF r.p THEN StreamPut(r.e, 1) ELSE r.e)
        ELSE LET w == IntRun(r.e, 1, DigitVal(Deref(r.e, r.at)))
             IN  Ret(TRUE, [w.e EXCEPT !.ns[id].num = w.num,
                                       !.ns[id].stk = Push(@, w.count)])

ParseInt(g, id, e) ==
    LET e1 == Skip(g, id, e)
        r == StreamNext(e1, 1)
    IN  IF ~r.p \/ Deref(r.e, r.at) \notin Digits
        THEN Ret(FALSE, Unskip(g, id, IF r.p THEN StreamPut(r.e, 1) ELSE r.e))
        ELSE LET w == IntRun(r.e, 1, DigitVal(Deref(r.e, r.at)))
             IN  Ret(TRUE, [w.e EXCEPT !.ns[id].num = w.num,
                                       !.ns[id].stk = Push(@, w.count)])

(* a variant of the counted unparse that puts back one byte, as            *)
(* ParserChar::unparse does, whatever the length it pops                   *)
UnparseCountedOne(g, id, e) ==
    IF e.ns[id].stk = <<>> THEN Abort(e, "assert:counts")
    ELSE Unskip(g, id, StreamPut([e EXCEPT !.ns[id].stk = Pop(@)], 1))

(* ParserInt::unparse and ParserLiteral::unparse: pop counts_, put, unskip *)
UnparseCounted(g, id, e) ==
    IF e.ns[id].stk = <<>> THEN Abort(e, "assert:counts")
    ELSE LET count == Top(e.ns[id].stk)
         IN  Unskip(g, id, StreamPut([e EXCEPT !.ns[id].stk = Pop(@)], count))

(* the loop of ParserLiteral::parse up to the closing quote or the end *)
RECURSIVE LitRun(_, _)
LitRun(e, count) ==
    LET r == StreamNext(e, 1) IN
    IF r.p /\ Deref(r.e, r.at) # Quote
    THEN LitRun(r.e, count + 1)
    ELSE [e |-> r.e, count |-> count, p |-> r.p, at |-> r.at]

(* a variant of ParserLiteral::parse that on an unterminated literal puts  *)
(* back what a matched literal records, one more than it consumed          *)
ParseLiteralOver(g, id, e) ==
    LET e1 == Skip(g, id, e)
        r == StreamNext(e1, 1)
    IN  IF ~r.p \/ Deref(r.e, r.at) # Quote
        THEN Ret(FALSE, Unskip(g, id, IF r.p THEN StreamPut(r.e, 1) ELSE r.e))
        ELSE LET w == LitRun(r.e, 1)
             IN  IF ~w.p
                 THEN Ret(FALSE, Unskip(g, id, StreamPut(w.e, w.count + 1)))
                 ELSE Ret(TRUE, [w.e EXCEPT
                          !.ns[id].ss = Slice(w.e, r.at + 1, w.at - r.at - 1),
                          !.ns[id].stk = Push(@, w.count + 1)])

ParseLiteral(g, id, e) ==
    LET e1 == Skip(g, id, e)
        r == StreamNext(e1, 1)
    IN  IF ~r.p \/ Deref(r.e, r.at) # Quote
        THEN Ret(FALSE, Unskip(g, id, IF r.p THEN StreamPut(r.e, 1) ELSE r.e))
        ELSE LET w == LitRun(r.e, 1)
             IN  IF ~w.p
                 THEN Ret(FALSE, Unskip(g, id, StreamPut(w.e, w.count)))
                 ELSE Ret(TRUE, [w.e EXCEPT
                          !.ns[id].ss = Slice(w.e, r.at + 1, w.at - r.at - 1),
                          !.ns[id].stk = Push(@, w.count + 1)])

(* a variant of ParserEnd::parse that leaves the byte it found consumed and *)
(* the skip in place when it fails *)
ParseEndKeep(g, id, e) ==
    LET e1 == Skip(g, id, e)
        r == StreamNext(e1, 1)
    IN  Ret(~r.p, r.e)

(* a variant of ParserEnd::parse that forgets stream.put(1) when it fails *)
ParseEndNoPut(g, id, e) ==
    LET e1 == Skip(g, id, e)
        r == StreamNext(e1, 1)
    IN  IF r.p THEN Ret(FALSE, Unskip(g, id, r.e))
        ELSE Ret(TRUE, r.e)

ParseEnd(g, id, e) ==
    LET e1 == Skip(g, id, e)
        r == StreamNext(e1, 1)
    IN  IF r.p THEN Ret(FALSE, Unskip(g, id, StreamPut(r.e, 1)))
        ELSE Ret(TRUE, r.e)

UnparseEnd(g, id, e) == Unskip(g, id, e)

----------------------------------------------------------------------------
(* Deferred parsers: the expression assigned to each DeferredParser *)

Brace == Alt(Chain(Str(<<"{">>), Str(<<"}">>)),
             Chain(Chain(Str(<<"{">>), Ref("dp")), Str(<<"}">>)))

(* test3: unit, bigunit (held by value wherever they are used), and the    *)
(* expressions assigned to the DeferredParsers factor and expr             *)
Unit == Alt(Alt(PInt, PLit),
            Sem(Chain(Chain(Str(<<"(">>), Ref("expr")), Str(<<")">>)), "paren"))

BigUnit == Alt(Sem(Chain(Str(<<"-">>), Unit), "neg"), Unit)

Factor == Alt(Sem(Chain(Chain(BigUnit, Str(<<"*">>)), Ref("factor")), "mul"), BigUnit)

Expr == Alt(Sem(Chain(Chain(Ref("factor"), Str(<<"+">>)), Ref("expr")), "add"),
            Ref("factor"))

Def(d) ==
    CASE d = "dp" -> Brace
      [] d = "expr" -> Expr
      [] d = "factor" -> Factor
      [] d = "rep" -> Chain(Many(ChrN("a")), ChrN("b"))
      [] d = "block" -> Chain(Chain(Str(<<"{">>), Many(Ref("block"))), Str(<<"}">>))
      [] d = "run" -> Chain(Many(Chr("a")), Chr("b"))
      [] d = "lst" -> Alt(Chain(PInt, Ref("lst")), PInt)
      [] d = "nst" -> Alt(Chain(ChrN("a"), Ref("nst")), ChrN("b"))

(* The grammar objects under test: root expression, the deferred parsers   *)
(* it refers to, and the bytes its inputs are made of                      *)
Grammar(n) ==
    CASE n = "alt" -> [root |-> Alt(Str(<<"a">>), Str(<<"a", "b">>)),
                       defs |-> {}, alpha |-> {"a", "b", " "}]
      [] n = "alt2" -> [root |-> Alt(Chain(Many(Chr("a")), Chr("b")), Many(Chr("a"))),
                        defs |-> {}, alpha |-> {"a", "b"}]
      [] n = "seq" -> [root |-> Chain(Chain(StrN(<<"a">>), ChrN(" ")), StrN(<<"b">>)),
                       defs |-> {}, alpha |-> {"a", "b", " "}]
      [] n = "many" -> [root |-> Chain(Many(Chr("a")), Chr("b")),
                        defs |-> {}, alpha |-> {"a", "b", " "}]
      [] n = "nest" -> [root |-> Chain(Many(Chain(Many(ChrN("a")), ChrN("b"))), PEndN),
                        defs |-> {}, alpha |-> {"a", "b"}]
      [] n = "defer" -> [root |-> Alt(Chain(Ref("rep"), ChrN("c")),
                                      Chain(Ref("rep"), ChrN("e"))),
                         defs |-> {"rep"}, alpha |-> {"a", "b", "e"}]
      [] n = "format" -> [root |-> Chain(Ref("block"), PEnd),
                          defs |-> {"block"}, alpha |-> {"{", "}", " "}]
      [] n = "manyalt" -> [root |-> Many(Alt(Str(<<"a">>), Str(<<"a", "b">>))),
                           defs |-> {}, alpha |-> {"a", "b"}]
      [] n = "prim" -> [root |-> Chain(Alt(PInt, PLit), PEnd),
                        defs |-> {}, alpha |-> {"1", "2", Quote, " "}]
      [] n = "semmany" -> [root |-> Many(Sem(Chain(Str(<<"a">>), Str(<<"b">>)), "paren")),
                           defs |-> {}, alpha |-> {"a", "b"}]
      [] n = "semalt" -> [root |-> Alt(Sem(Chain(Str(<<"a">>), Str(<<"b">>)), "paren"),
                                       Str(<<"a">>)),
                          defs |-> {}, alpha |-> {"a", "b"}]
      [] n = "maybe" -> [root |-> Maybe(Str(<<"a">>)),
                         defs |-> {}, alpha |-> {"a", "b"}]
      [] n = "star" -> [root |-> Many(Chr("a")), defs |-> {}, alpha |-> {"a", " "}]
      [] n = "chr" -> [root |-> Chr("a"), defs |-> {}, alpha |-> {"a", " "}]
      [] n = "chrn" -> [root |-> ChrN("a"), defs |-> {}, alpha |-> {"a", " "}]
      [] n = "str" -> [root |-> Str(<<"a">>), defs |-> {}, alpha |-> {"a", " "}]
      [] n = "int" -> [root |-> PInt, defs |-> {}, alpha |-> {"1", " "}]
      [] n = "lit" -> [root |-> PLit, defs |-> {}, alpha |-> {Quote, " "}]
      [] n = "end" -> [root |-> PEnd, defs |-> {}, alpha |-> {"a", " "}]
      [] n = "endn" -> [root |-> PEndN, defs |-> {}, alpha |-> {"a", " "}]
      [] n = "assign" -> [root |-> Ref("dp"),
                          defs |-> {"dp"}, alpha |-> {"{", "}", " "}]
      [] n = "indeed" -> [root |-> ManyIndeed(Str(<<"a">>)),
                          defs |-> {}, alpha |-> {"a", "b", " "}]
      [] n = "number" -> [root |-> PInt, defs |-> {}, alpha |-> {"1", "2", "x", " "}]
      [] n = "quoted" -> [root |-> PLit, defs |-> {}, alpha |-> {Quote, "x", " "}]
      [] n = "skipper" -> [root |-> Chr("a"), defs |-> {}, alpha |-> {"a", " ", "\t"}]
      [] n = "list" -> [root |-> Ref("lst"), defs |-> {"lst"},
                        alpha |-> {"1", "2", "3", " "}]
      [] n = "tuple" -> [root |-> Chain(Chain(Chain(PInt, Eps), Str(<<"a">>)),
                                        Chain(PInt, PEnd)),
                         defs |-> {}, alpha |-> {"1", "2", "a", " "}]
      [] n = "anb" -> [root |-> Ref("nst"), defs |-> {"nst"}, alpha |-> {"a", "b"}]
      [] n = "manyab" -> [root |-> Chain(Many(Alt(ChrN("a"), ChrN("b"))), ChrN("c")),
                          defs |-> {}, alpha |-> {"a", "b", "c"}]
      [] n = "commit" -> [root |-> Chain(Alt(StrN(<<"a">>), StrN(<<"a", "b">>)),
                                         StrN(<<"c">>)),
                          defs |-> {}, alpha |-> {"a", "b", "c"}]
      [] n = "either" -> [root |-> Alt(Str(<<"a">>), Str(<<"b">>)),
                          defs |-> {}, alpha |-> {"a", "b", " "}]
      [] n = "runs" -> [root |-> Ref("run"), defs |-> {"run"}, alpha |-> {"a", "b", " "}]
      [] n = "race" -> [root |-> Chain(Alt(Chr("a"), Chr("b")), ChrN("c")),
                        defs |-> {}, alpha |-> {"a", "b", "c", " "}]
      [] n = "greedy" -> [root |-> Chain(Many(Str(<<"a">>)), Str(<<"a">>)),
                          defs |-> {}, alpha |-> {"a", "b", " "}]
      [] n = "manyeps" -> [root |-> Many(Eps), defs |-> {}, alpha |-> {"a", "b"}]
      [] n = "manyend" -> [root |-> Many(PEndN), defs |-> {}, alpha |-> {"a", "b"}]
      [] n = "manymany" -> [root |-> Many(Many(ChrN("a"))),
                            defs |-> {}, alpha |-> {"a", "b"}]
      [] n = "manyempty" -> [root |-> Many(StrN(<<>>)), defs |-> {}, alpha |-> {"a", "b"}]
      [] n = "brace" -> [root |-> Ref("dp"),
                         defs |-> {"dp"}, alpha |-> {"{", "}", " "}]
      [] n = "arith" -> [root |-> Ref("expr"), defs |-> {"expr", "factor"},
                         alpha |-> {"1", "2", "3", "+", "*", "-", "(", ")", " "}]

Root(n) == Grammar(n).root

(* std::tuple_size of a node's ResultTupleType *)
RECURSIVE Arity(_)
Arity(g) ==
    CASE g.k \in {"eps", "end"} -> 0
      [] g.k = "seq" -> Arity(g.a) + Arity(g.b)
      [] OTHER -> 1

(* a default-constructed node: empty stacks, count_ = 0, null results *)
Fresh(g) == [stk |-> <<>>, skp |-> <<>>, cnt |-> 0, res |-> Null,
             tp |-> IF g.k = "seq" THEN NullTuple(Arity(g)) ELSE <<>>, num |-> 0, ss |-> <<>>, gh |-> <<>>]

Kid(id, i) == Append(id, i)

(* the objects of an expression held at id: <<identity, expression>> *)
RECURSIVE Nodes(_, _)
Nodes(g, id) ==
    {<<id, g>>} \cup
    CASE g.k \in {"alt", "seq"} -> Nodes(g.a, Kid(id, 1)) \cup Nodes(g.b, Kid(id, 2))
      [] g.k \in {"many", "sem"} -> Nodes(g.a, Kid(id, 1))
      [] OTHER -> {}

Objects(n) ==
    Nodes(Root(n), <<n>>) \cup UNION {Nodes(Def(d), <<d>>) : d \in Grammar(n).defs}

FreshNodes(n) ==
    LET objs == Objects(n) IN
    [id \in {o[1] : o \in objs} |-> Fresh((CHOOSE o \in objs : o[1] = id)[2])]

----------------------------------------------------------------------------
(* Combinators (ParserCombinators.hh, ParserBasics.hh).                    *)
(*                                                                         *)
(* A top-level call runs as the call stack of the program does: m is the   *)
(* running call,                                                           *)
(*   mode  "parse" / "unparse": the method of node id (expression g) is    *)
(*         being entered; "ret" / "unret": a parse / an unparse has just   *)
(*         returned to its caller; "halt": the top-level call is over      *)
(*   ks    the callers, innermost last: each frame is the method it is in, *)
(*         the point it resumes at (at) and its locals                     *)
(*   ok, x the value the last parse returned, and its record for history   *)
(*   e     the engine state                                                *)

WhichA == 1
WhichB == 2

(* history: a node call that returned.  x is the call's own record (the    *)
(* branch an alternative took and whether it tried B; how far a chain got; *)
(* how often a repetition matched or undid); v is what an alternative      *)
(* holds when it returns: the top of whichs and result_                    *)
Ev(id, o, p0, p1, ok, x, v) ==
    [n |-> id, op |-> o, p0 |-> p0, p1 |-> p1, ok |-> ok, x |-> x, v |-> v]

Held(g, id, e, ok) ==
    IF g.k = "alt" /\ ok /\ e.ns[id].stk # <<>>
    THEN <<Top(e.ns[id].stk), e.ns[id].res>>
    ELSE <<>>

(* a frame of the method of node id entered at cursor p0; aux: its locals *)
Frame(at, g, id, p0, aux) == [at |-> at, g |-> g, id |-> id, p0 |-> p0, aux |-> aux]

(* the program stops: an assertion failed, or the call does not return *)
Halt(m, e) == [m EXCEPT !.mode = "halt", !.e = e, !.ok = FALSE, !.x = 0]

(* frame f calls parse / unparse of the child (g, id) *)
Call(m, e, f, g, id) ==
    [m EXCEPT !.mode = "parse", !.e = e, !.ks = Push(@, f), !.g = g, !.id = id]

CallUn(m, e, f, g, id) ==
    [m EXCEPT !.mode = "unparse", !.e = e, !.ks = Push(@, f), !.g = g, !.id = id]

(* the parse of frame f returns ok *)
Return(m, e, f, ok, x) ==
    IF e.err # "" THEN Halt(m, e)
    ELSE [m EXCEPT !.mode = "ret", !.ok = ok, !.x = x,
                   !.e = Emit(e, Ev(f.id, f.g.k, f.p0, e.pos, ok, x, Held(f.g, f.id, e, ok)))]

(* the unparse of frame f returns *)
UnReturn(m, e, f, x) ==
    IF e.err # "" THEN Halt(m, e)
    ELSE [m EXCEPT !.mode = "unret",
                   !.e = Emit(e, Ev(f.id, "un" \o f.g.k, f.p0, e.pos, TRUE, x, <<>>))]

RECURSIVE GetResult(_, _, _), GetTuple(_, _, _)

(* a variant of the transforms that always hands over std::get<1>(tp) *)
ApplySecond(f, tp) == tp[2]

(* the transform attached by operator[] (the lambdas of test3) *)
ApplyFunc(f, tp) ==
    CASE f = "paren" -> tp[2]
      [] f = "neg" -> NegV(tp[2])
      [] f = "mul" -> MulV(tp[1], tp[3])
      [] f = "add" -> AddV(tp[1], tp[3])

(* history: SemanticParser::getResult of node id called its transform f *)
Called(id, f, e) == Ev(id, "func", e.pos, e.pos, TRUE, f, <<>>)

(* ParserAlternative::parse *)

(* history: an Alternative.parse stopped by its entry assertion *)
AltStopped(id, e) == Ev(id, "alt!", e.pos, e.pos, FALSE, <<0, FALSE>>, <<>>)

(* a variant of ParserAlternative::parse that goes to parserB_ at once *)
ParseAltSecond(m, e, f) ==
    IF e.ns[f.id].res # Null
    THEN Halt(m, Abort(Emit(e, AltStopped(f.id, e)), "assert:result"))
    ELSE Call(m, e, [f EXCEPT !.at = "alt.b"], f.g.b, Kid(f.id, 2))

(* assert(result_.ptr_ == nullptr); if ( parserA_.parse(stream) ) ... *)
ParseAlt(m, e, f) ==
    IF e.ns[f.id].res # Null
    THEN Halt(m, Abort(Emit(e, AltStopped(f.id, e)), "assert:result"))
    ELSE Call(m, e, [f EXCEPT !.at = "alt.a"], f.g.a, Kid(f.id, 1))

(* whichs.push(which); result_ = child.getResult(); return true *)
AltChoose(m, e, f, c, cid, which) ==
    LET e1 == [e EXCEPT !.ns[f.id].stk = Push(@, which)]
        r == GetResult(c, cid, e1)
    IN  Return(m, [r.e EXCEPT !.ns[f.id].res = r.v], f, TRUE, <<which, which = WhichB>>)

(* parserA_.parse returned: choose A, or go on to parserB_.parse *)
AltAfterA(m, f) ==
    IF m.ok THEN AltChoose(m, m.e, f, f.g.a, Kid(f.id, 1), WhichA)
    ELSE Call(m, m.e, [f EXCEPT !.at = "alt.b"], f.g.b, Kid(f.id, 2))

(* parserB_.parse returned: choose B, or return false *)
AltAfterB(m, f) ==
    IF m.ok THEN AltChoose(m, m.e, f, f.g.b, Kid(f.id, 2), WhichB)
    ELSE Return(m, m.e, f, FALSE, <<0, TRUE>>)

(* history: ParserAlternative::unparse of node id popped which off whichs *)
Popped(id, which, e) == Ev(id, "whichs.pop", e.pos, e.pos, TRUE, which, <<>>)

(* a variant of ParserAlternative::unparse that pops whichs and undoes A   *)
(* whatever it popped                                                      *)
UnparseAltFirst(m, e, f) ==
    IF e.ns[f.id].stk = <<>> THEN Halt(m, Abort(e, "assert:whichs"))
    ELSE LET which == Top(e.ns[f.id].stk)
         IN  CallUn(m, Emit([e EXCEPT !.ns[f.id].stk = Pop(@)], Popped(f.id, which, e)),
                    [f EXCEPT !.at = "un.last", !.aux = which], f.g.a, Kid(f.id, 1))

(* ParserAlternative::unparse; aux is the branch it popped *)
UnparseAlt(m, e, f) ==
    IF e.ns[f.id].stk = <<>> THEN Halt(m, Abort(e, "assert:whichs"))
    ELSE LET which == Top(e.ns[f.id].stk)
             e1 == Emit([e EXCEPT !.ns[f.id].stk = Pop(@)], Popped(f.id, which, e))
             f1 == [f EXCEPT !.at = "un.last", !.aux = which]
         IN  IF which = WhichA THEN CallUn(m, e1, f1, f.g.a, Kid(f.id, 1))
             ELSE IF which = WhichB THEN CallUn(m, e1, f1, f.g.b, Kid(f.id, 2))
             ELSE Halt(m, Abort(e1, "assert:0"))

(* ParserChain::parse *)
ParseChain(m, e, f) == Call(m, e, [f EXCEPT !.at = "seq.a"], f.g.a, Kid(f.id, 1))

(* parserA_.parse returned: return false, or take A's tuple and parse B *)
ChainAfterA(m, f) ==
    IF ~m.ok THEN Return(m, m.e, f, FALSE, 0)
    ELSE LET ta == GetTuple(f.g.a, Kid(f.id, 1), m.e)
         IN  Call(m, ta.e, [f EXCEPT !.at = "seq.b", !.aux = ta.t], f.g.b, Kid(f.id, 2))

(* a variant of the chain that stores B's tuple before A's *)
ChainAfterBSwapped(m, f) ==
    IF ~m.ok THEN CallUn(m, m.e, [f EXCEPT !.at = "seq.undo"], f.g.a, Kid(f.id, 1))
    ELSE LET tb == GetTuple(f.g.b, Kid(f.id, 2), m.e)
         IN  Return(m, [tb.e EXCEPT !.ns[f.id].tp = tb.t \o f.aux], f, TRUE, 2)

(* a variant of the chain that takes A's tuple only once B has matched *)
ChainAfterBLate(m, f) ==
    IF ~m.ok THEN CallUn(m, m.e, [f EXCEPT !.at = "seq.undo"], f.g.a, Kid(f.id, 1))
    ELSE LET ta == GetTuple(f.g.a, Kid(f.id, 1), m.e)
             tb == GetTuple(f.g.b, Kid(f.id, 2), ta.e)
         IN  Return(m, [tb.e EXCEPT !.ns[f.id].tp = ta.t \o tb.t], f, TRUE, 2)

(* parserB_.parse returned: undo A, or store the tuple of both *)
ChainAfterB(m, f) ==
    IF ~m.ok THEN CallUn(m, m.e, [f EXCEPT !.at = "seq.undo"], f.g.a, Kid(f.id, 1))
    ELSE LET tb == GetTuple(f.g.b, Kid(f.id, 2), m.e)
         IN  Return(m, [tb.e EXCEPT !.ns[f.id].tp = f.aux \o tb.t], f, TRUE, 2)

(* parserA_.unparse returned after B failed: return false *)
ChainUndone(m, f) == Return(m, m.e, f, FALSE, 1)

(* ParserChain::unparse: B, then A, then the tuple is reset *)
UnparseChain(m, e, f) == CallUn(m, e, [f EXCEPT !.at = "unseq.b"], f.g.b, Kid(f.id, 2))

(* a variant of ParserChain::unparse that undoes B and leaves A as it is *)
UnchainSkipA(m, f) ==
    UnReturn(m, [m.e EXCEPT !.ns[f.id].tp = NullTuple(Arity(f.g))], f, 0)

UnchainAfterB(m, f) == CallUn(m, m.e, [f EXCEPT !.at = "unseq.a"], f.g.a, Kid(f.id, 1))

UnchainAfterA(m, f) ==
    UnReturn(m, [m.e EXCEPT !.ns[f.id].tp = NullTuple(Arity(f.g))], f, 0)

(* ParserMany::parse: while ( p_.parse(stream) ) ++count_;                 *)
(* aux counts this call's successes                                        *)
ParseMany(m, e, f) == Call(m, e, [f EXCEPT !.at = "many", !.aux = 0], f.g.a, Kid(f.id, 1))

(* p_.parse returned.  gh is history: the entry position and success count *)
(* of each attempt of this node that has not been undone                   *)
ManyParseLoop(m, f) ==
    IF m.ok
    THEN Call(m, [m.e EXCEPT !.ns[f.id].cnt = @ + 1],
              [f EXCEPT !.aux = @ + 1], f.g.a, Kid(f.id, 1))
    ELSE Return(m, [m.e EXCEPT !.ns[f.id].gh = Push(@, <<f.p0, f.aux>>)], f, TRUE, f.aux)

(* the test of while ( count_-- ): TRUE to run the body; count_ is         *)
(* decremented either way, and 0 - 1 wraps                                 *)
ManyTest(count) == [go |-> count # 0, count |-> count - 1]

(* ParserMany::unparse: while ( count_-- ) p_.unparse(stream);             *)
(* aux is <<the calls made, the attempt being undone>>                     *)
ManyUnparseLoop(m, e, f) ==
    LET t == ManyTest(e.ns[f.id].cnt)
        e1 == [e EXCEPT !.ns[f.id].cnt = t.count]
    IN  IF t.go
        THEN CallUn(m, e1, [f EXCEPT !.at = "unmany", !.aux[1] = @ + 1], f.g.a, Kid(f.id, 1))
        ELSE UnReturn(m, e1, f, f.aux)

UnparseMany(m, e, f) ==
    LET att == IF e.ns[f.id].gh = <<>> THEN <<>> ELSE Top(e.ns[f.id].gh)
        e0 == [e EXCEPT !.ns[f.id].gh = IF @ = <<>> THEN @ ELSE Pop(@)]
    IN  ManyUnparseLoop(m, e0, [f EXCEPT !.aux = <<0, att>>])

(* a variant of DeferredParser::parse whose look at the remaining input    *)
(* takes a byte: stream.next(1)                                            *)
ParseDeferredAhead(m, e, f) ==
    Call(m, StreamNext(e, 1).e, [f EXCEPT !.at = "last"], e.ops[f.g.d], <<f.g.d>>)

(* DeferredParser::parse: stream.next(0) for the debug line, then          *)
(* VStreamAdapter sa(stream); return ops->parse(sa).  sa hands next and    *)
(* put on to the one cursor, so the assigned grammar runs on e itself      *)
ParseDeferred(m, e, f) ==
    Call(m, StreamNext(e, 0).e, [f EXCEPT !.at = "last"], e.ops[f.g.d], <<f.g.d>>)

(* DeferredParser::unparse: the same, with ops->unparse(sa) *)
UnparseDeferred(m, e, f) ==
    CallUn(m, StreamNext(e, 0).e, [f EXCEPT !.at = "un.last"], e.ops[f.g.d], <<f.g.d>>)

(* a primitive's parse ran *)
Prim(m, f, r) == Return(m, r.e, f, r.ok, r.x)

(* parse of node (m.g, m.id) is entered *)
EnterParse(m) ==
    LET e == Tick(m.e)
        g == m.g
        id == m.id
        f == Frame("", g, id, e.pos, 0)
    IN  IF e.err # "" THEN Halt(m, e)
        ELSE CASE g.k = "chr" -> Prim(m, f, ParseChar(g, id, e))
               [] g.k = "str" -> Prim(m, f, ParseString(g, id, e))
               [] g.k = "int" -> Prim(m, f, ParseInt(g, id, e))
               [] g.k = "lit" -> Prim(m, f, ParseLiteral(g, id, e))
               [] g.k = "end" -> Prim(m, f, ParseEnd(g, id, e))
               [] g.k = "eps" -> Return(m, e, f, TRUE, 0)
               [] g.k = "alt" -> ParseAlt(m, e, f)
               [] g.k = "seq" -> ParseChain(m, e, f)
               [] g.k = "many" -> ParseMany(m, e, f)
               [] g.k = "sem" -> Call(m, e, [f EXCEPT !.at = "last"], g.a, Kid(id, 1))
               [] g.k = "ref" -> ParseDeferred(m, e, f)

(* unparse of node (m.g, m.id) is entered *)
EnterUnparse(m) ==
    LET e == Tick(m.e)
        g == m.g
        id == m.id
        f == Frame("", g, id, e.pos, 0)
    IN  IF e.err # "" THEN Halt(m, e)
        ELSE CASE g.k = "chr" -> UnReturn(m, UnparseChar(g, id, e), f, 0)
               [] g.k = "str" -> UnReturn(m, UnparseString(g, id, e), f, 0)
               [] g.k \in {"int", "lit"} -> UnReturn(m, UnparseCounted(g, id, e), f, 0)
               [] g.k = "end" -> UnReturn(m, UnparseEnd(g, id, e), f, 0)
               [] g.k = "eps" -> UnReturn(m, e, f, 0)
               [] g.k = "alt" -> UnparseAlt(m, e, f)
               [] g.k = "seq" -> UnparseChain(m, e, f)
               [] g.k = "many" -> UnparseMany(m, e, f)
               [] g.k = "sem" -> CallUn(m, e, [f EXCEPT !.at = "un.last"], g.a, Kid(id, 1))
               [] g.k = "ref" -> UnparseDeferred(m, e, f)

(* a call returned: the innermost caller resumes where it was *)
Resume(m) ==
    IF m.ks = <<>> THEN [m EXCEPT !.mode = "halt"]
    ELSE LET f == Top(m.ks)
             m1 == [m EXCEPT !.ks = Pop(@)]
         IN  CASE f.at = "alt.a" -> AltAfterA(m1, f)
               [] f.at = "alt.b" -> AltAfterB(m1, f)
               [] f.at = "seq.a" -> ChainAfterA(m1, f)
               [] f.at = "seq.b" -> ChainAfterB(m1, f)
               [] f.at = "seq.undo" -> ChainUndone(m1, f)
               [] f.at = "many" -> ManyParseLoop(m1, f)
               [] f.at = "last" -> Return(m1, m1.e, f, m1.ok, m1.x)
               [] f.at = "un.last" -> UnReturn(m1, m1.e, f, f.aux)
               [] f.at = "unseq.b" -> UnchainAfterB(m1, f)
               [] f.at = "unseq.a" -> UnchainAfterA(m1, f)
               [] f.at = "unmany" -> ManyUnparseLoop(m1, m1.e, f)

(* one step of the running call *)
Step(m) ==
    CASE m.mode = "parse" -> EnterParse(m)
      [] m.mode = "unparse" -> EnterUnparse(m)
      [] m.mode \in {"ret", "unret"} -> Resume(m)
      [] m.mode = "halt" -> m

(* 2^d steps *)
RECURSIVE Steps(_, _)
Steps(m, d) ==
    IF m.mode = "halt" THEN m
    ELSE IF d = 0 THEN Step(m)
    ELSE Steps(Steps(m, d - 1), d - 1)

(* the call runs until it is over *)
RECURSIVE Run(_)
Run(m) == IF m.mode = "halt" THEN m ELSE Run(Steps(m, 12))

Start(mode, g, id, e) ==
    [mode |-> mode, g |-> g, id |-> id, ks |-> <<>>, e |-> e, ok |-> FALSE, x |-> 0]

(* node.parse(stream): what it returns, the state it leaves, its record *)
Outcome(m) == RetX(m.ok, m.e, m.x)

Parse(g, id, e0) == Outcome(Run(Start("parse", g, id, e0)))

(* node.unparse(stream) *)
Unparse(g, id, e0) == Run(Start("unparse", g, id, e0)).e

(* a variant of getResult that hands over a copy and keeps the member *)
TakeResKeep(id, e) == [v |-> e.ns[id].res, e |-> e]

(* std::move(result_): hand the member over and leave it null *)
TakeRes(id, e) == [v |-> e.ns[id].res, e |-> [e EXCEPT !.ns[id].res = Null]]

GetResult(g, id, e) ==
    CASE g.k \in {"chr", "str", "alt", "many"} -> TakeRes(id, e)
      [] g.k = "int" -> [v |-> IntV(e.ns[id].num), e |-> e]
      [] g.k = "lit" -> [v |-> StrV(e.ns[id].ss), e |-> e]
      [] g.k \in {"end", "eps"} -> [v |-> Null, e |-> e]
      [] g.k = "seq" -> [v |-> TupV(e.ns[id].tp),
                         e |-> [e EXCEPT !.ns[id].tp = NullTuple(Arity(g))]]
      [] g.k = "sem" -> LET t == GetTuple(g.a, Kid(id, 1), e)
                        IN  [v |-> ApplyFunc(g.f, t.t), e |-> Emit(t.e, Called(id, g.f, t.e))]
      [] g.k = "ref" -> GetResult(e.ops[g.d], <<g.d>>, e)

GetTuple(g, id, e) ==
    CASE g.k \in {"end", "eps"} -> [t |-> <<>>, e |-> e]
      [] g.k = "seq" -> [t |-> e.ns[id].tp,
                         e |-> [e EXCEPT !.ns[id].tp = NullTuple(Arity(g))]]
      [] OTHER -> LET r == GetResult(g, id, e) IN [t |-> <<r.v>>, e |-> r.e]

----------------------------------------------------------------------------
(* The embedding program: one grammar object, one StreamAdapter, and the   *)
(* calls operator>>= / unparse / getResult made on the root (test, test2,  *)
(* test3, test4 of parser.cc)                                              *)

NoByte == "?"

(* input buffers: every string over the grammar's bytes up to MaxLen *)
RECURSIVE Strings(_, _)
Strings(alpha, n) ==
    IF n = 0 THEN {<<>>}
    ELSE LET shorter == Strings(alpha, n - 1)
         IN  shorter \cup {Append(s, c) : s \in {x \in shorter : Len(x) = n - 1}, c \in alpha}

Inputs(n) == Strings(Grammar(n).alpha, MaxLen)

Names == {"alt", "alt2", "seq", "many", "nest", "defer", "format", "manyalt", "prim"}

(* grammars with a semantic action, an optional part, a one-or-more part   *)
OtherNames == {"semmany", "semalt", "maybe", "indeed"}

(* one node of every kind *)
NodeNames == {"alt", "star", "chr", "chrn", "str", "int", "lit", "end", "endn"}

(* one primitive parser of every kind *)
LeafNames == {"chr", "chrn", "str", "number", "quoted", "end", "endn"}

(* chains: of values with an epsilon and an end among them, of three      *)
(* primitives, with a repetition on the left, inside a repetition          *)
ChainNames == {"tuple", "seq", "many", "nest"}

(* alternatives: alone, entered again through a DeferredParser on the     *)
(* right of its first branch, inside a repetition                          *)
AltNames == {"alt", "anb", "manyab"}

(* an alternative on the left of a chain, both branches matching "a..." *)
CommitNames == {"commit"}

(* the nodes whose getResult moves result_ out: a string, an alternative *)
ResultNames == {"str", "either"}

(* a DeferredParser as the root: over a grammar that refers to itself, over *)
(* a chain with a repetition, over the list grammar                        *)
DeferNames == {"anb", "runs", "list"}

(* a repetition of a parser that can match without consuming: epsilon,    *)
(* the end of input, a repetition, the empty string                        *)
LoopNames == {"manyeps", "manyend", "manymany", "manyempty"}

(* the grammars whose calls are recorded in the history *)
Recorded ==
    Names \cup OtherNames \cup NodeNames \cup LeafNames \cup ChainNames \cup AltNames
        \cup CommitNames \cup ResultNames \cup LoopNames \cup {"runs", "greedy"}

(* the bytes a read outside the buffer may find.  The grammars of test2    *)
(* and test3 hold no repetition, so two representatives stand for them     *)
Junk(n) == IF n \in Recorded THEN Grammar(n).alpha \cup {NoByte} ELSE {NoByte, " "}

Snap(e) == [pos |-> e.pos, ns |-> e.ns]

(* StreamAdapter(s): cur_pos = 0; nodes as constructed *)
NewEngine(n, buf) ==
    [buf |-> buf, pos |-> 0, junk |-> NoByte, ns |-> FreshNodes(n),
     ops |-> [d \in Grammar(n).defs |-> Def(d)],
     err |-> "", steps |-> 0, log |-> <<>>, hist |-> n \in Recorded,
     lim |-> IF n \in Recorded THEN MaxSteps ELSE ArithSteps]

Begin(e, j) == [e EXCEPT !.steps = 0, !.log = <<>>, !.junk = j]
Finish(e) == [e EXCEPT !.junk = NoByte]

InitOf(names, bufs) ==
    /\ gname \in names
    /\ \E buf \in bufs[gname] : st = NewEngine(gname, buf)
    /\ op = "init"
    /\ ret = "none"
    /\ pre = Snap(st)
    /\ pend = <<>>
    /\ out = Null
    /\ nops = 0
    /\ runs = <<>>

Init == InitOf(Names, [n \in Names |-> Inputs(n)])

(* the caller reads one byte itself before it runs the grammar *)
CallNext ==
    /\ st.err = ""
    /\ op \in {"init", "next"}
    /\ st.pos < Len(st.buf)
    /\ st' = StreamNext(st, 1).e
    /\ op' = "next"
    /\ pre' = Snap(st)
    /\ UNCHANGED <<gname, ret, pend, out, nops, runs>>

(* root >>= stream *)
CallParse ==
    /\ st.err = ""
    /\ nops < MaxOps
    /\ \E j \in Junk(gname) :
         \E r \in {Parse(Root(gname), <<gname>>, Begin(st, j))} :
         /\ st' = Finish(r.e)
         /\ ret' = IF r.e.err # "" THEN "none" ELSE IF r.ok THEN "true" ELSE "false"
         /\ pend' = IF r.ok THEN Push(pend, Snap(st)) ELSE pend
    /\ op' = "parse"
    /\ pre' = Snap(st)
    /\ nops' = nops + 1
    /\ UNCHANGED <<gname, out, runs>>

(* root.unparse(stream), undoing the latest successful parse not yet undone *)
CallUnparse ==
    /\ st.err = ""
    /\ nops < MaxOps
    /\ pend # <<>>
    /\ \E j \in Junk(gname) :
         st' = Finish(Unparse(Root(gname), <<gname>>, Begin(st, j)))
    /\ op' = "unparse"
    /\ pre' = Top(pend)
    /\ pend' = Pop(pend)
    /\ nops' = nops + 1
    /\ UNCHANGED <<gname, ret, out, runs>>

(* root.getResult() right after a successful parse *)
CallGetResult ==
    /\ st.err = ""
    /\ op = "parse"
    /\ ret = "true"
    /\ LET r == GetResult(Root(gname), <<gname>>, st) IN
         /\ st' = r.e
         /\ out' = r.v
    /\ op' = "result"
    /\ pre' = Snap(st)
    /\ UNCHANGED <<gname, ret, pend, nops, runs>>

(* a new StreamAdapter over the same string for the same grammar object;   *)
(* the parses made so far stay committed                                   *)
CallRewind ==
    /\ st.err = ""
    /\ nops < MaxOps
    /\ op \in {"parse", "result", "unparse"}
    /\ st' = [st EXCEPT !.pos = 0]
    /\ op' = "rewind"
    /\ pre' = Snap(st)
    /\ pend' = <<>>
    /\ nops' = nops + 1
    /\ UNCHANGED <<gname, ret, out, runs>>

Next == CallNext \/ CallParse \/ CallUnparse \/ CallGetResult \/ CallRewind

Spec == Init /\ [][Next]_vars

InitOther == InitOf(OtherNames, [n \in OtherNames |-> Inputs(n)])

SpecOther == InitOther /\ [][Next]_vars

InitChain == InitOf(ChainNames, [n \in ChainNames |-> Inputs(n)])

SpecChain == InitChain /\ [][Next]_vars

InitAlt == InitOf(AltNames, [n \in AltNames |-> Inputs(n)])

SpecAlt == InitAlt /\ [][Next]_vars

InitCommit == InitOf(CommitNames, [n \in CommitNames |-> Inputs(n)])

SpecCommit == InitCommit /\ [][Next]_vars

InitDefer == InitOf(DeferNames, [n \in DeferNames |-> Inputs(n)])

SpecDefer == InitDefer /\ [][Next]_vars

(* a repetition followed by what it repeats, parsed again and again by     *)
(* the one grammar object                                                  *)
NextAgain == CallNext \/ CallParse \/ CallRewind

InitGreedy == InitOf({"greedy"}, [n \in {"greedy"} |-> Inputs(n)])

SpecGreedy == InitGreedy /\ [][NextAgain]_vars

InitLoop == InitOf(LoopNames, [n \in LoopNames |-> Inputs(n)])

SpecLoop == InitLoop /\ [][NextAgain]_vars

InitLeaf == InitOf(LeafNames, [n \in LeafNames |-> Inputs(n)])

SpecLeaf == InitLeaf /\ [][Next]_vars

(* the nodes of the expression g held at id, as constructed *)
NodesOf(g, id) ==
    LET objs == Nodes(g, id) IN
    [i \in {o[1] : o \in objs} |-> Fresh((CHOOSE o \in objs : o[1] = i)[2])]

(* ops == nullptr: the DeferredParser holds no grammar *)
NoOps == [k |-> "null"]

(* the engine before any DeferredParser of grammar n is assigned: ops is   *)
(* null, and only the root's own nodes exist                               *)
Unassigned(n, e) ==
    [e EXCEPT !.ops = [d \in DOMAIN @ |-> NoOps], !.ns = NodesOf(Root(n), <<n>>)]

(* a variant of operator= that assigns whatever ops holds *)
AssignAgain(d, g, e) == [e EXCEPT !.ops[d] = g, !.ns = NodesOf(g, <<d>>) @@ @]

(* DeferredParser::operator=: assert(ops == nullptr); ops = make_unique(p) *)
Assign(d, g, e) ==
    IF e.ops[d] # NoOps THEN Abort(e, "assert:ops")
    ELSE [e EXCEPT !.ops[d] = g, !.ns = NodesOf(g, <<d>>) @@ @]

(* the expressions the program may assign to the DeferredParser d *)
Assignable(d) == {Def(d), Chain(Str(<<"{">>), Str(<<"}">>))}

(* d = g *)
CallAssign ==
    /\ st.err = ""
    /\ nops < MaxOps
    /\ \E d \in DOMAIN st.ops : \E g \in Assignable(d) : st' = Assign(d, g, st)
    /\ op' = "assign"
    /\ pre' = Snap(st)
    /\ nops' = nops + 1
    /\ UNCHANGED <<gname, ret, pend, out, runs>>

(* root >>= stream once every DeferredParser is assigned, as test2 and     *)
(* test3 do                                                                *)
CallParseAssigned ==
    /\ \A d \in DOMAIN st.ops : st.ops[d] # NoOps
    /\ CallParse

NextAssign == CallAssign \/ CallParseAssigned

InitAssign ==
    /\ gname = "assign"
    /\ \E buf \in Inputs(gname) : st = Unassigned(gname, NewEngine(gname, buf))
    /\ op = "init"
    /\ ret = "none"
    /\ pre = Snap(st)
    /\ pend = <<>>
    /\ out = Null
    /\ nops = 0
    /\ runs = <<>>

SpecAssign == InitAssign /\ [][NextAssign]_vars

(* root.unparse(stream) with no successful parse of the root to undo *)
CallStray ==
    /\ st.err = ""
    /\ nops < MaxOps
    /\ pend = <<>>
    /\ \E j \in Junk(gname) :
         st' = Finish(Unparse(Root(gname), <<gname>>, Begin(st, j)))
    /\ op' = "stray"
    /\ pre' = Snap(st)
    /\ nops' = nops + 1
    /\ UNCHANGED <<gname, ret, pend, out, runs>>

(* stream.put(n) called by the program itself *)
CallPut ==
    /\ st.err = ""
    /\ nops < MaxOps
    /\ \E n \in 1..MaxLen : st' = StreamPut(st, n)
    /\ op' = "put"
    /\ pre' = Snap(st)
    /\ nops' = nops + 1
    /\ UNCHANGED <<gname, ret, pend, out, runs>>

NextMisuse == CallNext \/ CallParse \/ CallStray \/ CallPut

InitMisuse == InitOf(NodeNames, [n \in NodeNames |-> Inputs(n)])

SpecMisuse == InitMisuse /\ [][NextMisuse]_vars

(* root.getResult() at any time: before any parse, after a failed one,     *)
(* again after the result was taken                                        *)
CallTake ==
    /\ st.err = ""
    /\ LET r == GetResult(Root(gname), <<gname>>, st) IN
         /\ st' = r.e
         /\ out' = r.v
    /\ op' = "take"
    /\ pre' = Snap(st)
    /\ UNCHANGED <<gname, ret, pend, nops, runs>>

NextResult == CallNext \/ CallParse \/ CallTake

InitResult == InitOf(ResultNames, [n \in ResultNames |-> Inputs(n)])

SpecResult == InitResult /\ [][NextResult]_vars

(* skipper_.skip(stream) of a primitive's SkipPolicySpace, called on its   *)
(* own; pend keeps the state before each skip not yet undone               *)
CallSkip ==
    /\ st.err = ""
    /\ nops < MaxOps
    /\ st' = SkipSpace(<<gname>>, st)
    /\ op' = "skip"
    /\ pre' = Snap(st)
    /\ pend' = Push(pend, Snap(st))
    /\ nops' = nops + 1
    /\ UNCHANGED <<gname, ret, out, runs>>

(* skipper_.unskip(stream), undoing the latest skip not yet undone *)
CallUnskip ==
    /\ st.err = ""
    /\ nops < MaxOps
    /\ pend # <<>>
    /\ st' = UnskipSpace(<<gname>>, st)
    /\ op' = "unskip"
    /\ pre' = Top(pend)
    /\ pend' = Pop(pend)
    /\ nops' = nops + 1
    /\ UNCHANGED <<gname, ret, out, runs>>

NextSkip == CallNext \/ CallSkip \/ CallUnskip

InitSkip == InitOf({"skipper"}, [n \in {"skipper"} |-> Inputs(n)])

SpecSkip == InitSkip /\ [][NextSkip]_vars

----------------------------------------------------------------------------
(* One grammar object run on two cursors at once.  Each run parses from    *)
(* offset 0 of its own StreamAdapter and, when the parse returned true,    *)
(* unparses; the runs take turns node call by node call.  The nodes'       *)
(* members (st.ns) are the one grammar object's; cursor and call stack are *)
(* each run's own.                                                         *)
(*   m     the run's call (as in Step), on its own cursor                  *)
(*   ph    "parse", "unparse": the call it is in                           *)
(*   took  history: the run popped an undo entry the other run had pushed  *)
(* own is history: for every undo stack, the run that pushed each entry    *)

RaceInputs(n) == Strings(Grammar(n).alpha, RaceLen)

NewRun(n, buf) ==
    [m |-> Start("parse", Root(n), <<n>>, [NewEngine(n, buf) EXCEPT !.hist = FALSE]),
     ph |-> "parse", took |-> FALSE]

NoOwners(n) == [id \in DOMAIN FreshNodes(n) |-> [stk |-> <<>>, skp |-> <<>>]]

(* history: the owners of a stack that held old entries and now holds new *)
Owners(own, old, new, i) ==
    IF new > old THEN own \o [k \in 1..(new - old) |-> i] ELSE SubSeq(own, 1, new)

(* history: the step took an entry of another run off a stack *)
Took(own, new, i) == \E k \in (new + 1)..Len(own) : own[k] # i

InitRace ==
    /\ gname = "race"
    /\ st = NewEngine(gname, <<>>)
    /\ \E b1 \in RaceInputs(gname), b2 \in RaceInputs(gname) :
           runs = [r |-> <<NewRun(gname, b1), NewRun(gname, b2)>>, own |-> NoOwners(gname)]
    /\ op = "init"
    /\ ret = "none"
    /\ pre = Snap(st)
    /\ pend = <<>>
    /\ out = Null
    /\ nops = 0

(* run i makes the next node call of the call it is in, on the members     *)
(* the grammar object has now; j is the byte a read finds when the run's   *)
(* cursor has wrapped                                                      *)
RaceStep ==
    /\ st.err = ""
    /\ \E i \in 1..2 : \E j \in (IF runs.r[i].m.e.pos < 0 THEN Junk(gname) ELSE {NoByte}) :
         LET r == runs.r[i]
             m == Step([r.m EXCEPT !.e.ns = st.ns, !.e.junk = j])
             ns == m.e.ns
             tk == \E id \in DOMAIN ns :
                       \/ Took(runs.own[id].stk, Len(ns[id].stk), i)
                       \/ Took(runs.own[id].skp, Len(ns[id].skp), i)
         IN  /\ r.m.mode # "halt"
             /\ st' = [st EXCEPT !.ns = ns, !.err = m.e.err]
             /\ runs' = [r |-> [runs.r EXCEPT ![i] = [m |-> [m EXCEPT !.e.junk = NoByte],
                                                      ph |-> r.ph,
                                                      took |-> r.took \/ tk]],
                         own |-> [id \in DOMAIN ns |->
                                     [stk |-> Owners(runs.own[id].stk, Len(st.ns[id].stk),
                                                     Len(ns[id].stk), i),
                                      skp |-> Owners(runs.own[id].skp, Len(st.ns[id].skp),
                                                     Len(ns[id].skp), i)]]]
    /\ op' = "step"
    /\ UNCHANGED <<gname, ret, pre, pend, out, nops>>

(* the parse of run i returned true: the run calls root.unparse(stream) *)
RaceUndo ==
    /\ st.err = ""
    /\ \E i \in 1..2 :
         LET r == runs.r[i] IN
         /\ r.ph = "parse" /\ r.m.mode = "halt" /\ r.m.ok
         /\ runs' = [runs EXCEPT !.r[i] =
                        [r EXCEPT !.ph = "unparse",
                                  !.m = Start("unparse", Root(gname), <<gname>>,
                                              Begin(r.m.e, NoByte))]]
    /\ op' = "undo"
    /\ UNCHANGED <<gname, st, ret, pre, pend, out, nops>>

NextRace == RaceStep \/ RaceUndo

SpecRace == InitRace /\ [][NextRace]_vars

----------------------------------------------------------------------------
(* test2 and test3: one grammar, one stream from offset 0, and the calls   *)
(* made on the root                                                        *)

NextRun == CallParse \/ CallGetResult \/ CallUnparse

BraceInputs(n) == Strings(Grammar(n).alpha, BraceLen)

InitBrace == InitOf({"brace"}, [n \in {"brace"} |-> BraceInputs(n)])

SpecBrace == InitBrace /\ [][NextRun]_vars

(* the trees over the operands lo, lo + 1, .., hi in this order with at    *)
(* most m negations                                                        *)
RECURSIVE Asts(_, _, _)
Asts(lo, hi, m) ==
    LET plain == IF lo = hi THEN {IntV(lo)}
                 ELSE UNION {UNION {{AddV(l, r), MulV(l, r)} :
                                    l \in Asts(lo, k, j), r \in Asts(k + 1, hi, m - j)} :
                             k \in lo..(hi - 1), j \in 0..m}
    IN  plain \cup (IF m = 0 THEN {} ELSE {NegV(x) : x \in Asts(lo, hi, m - 1)})

ArithAsts == UNION {Asts(1, n, ArithNegs) : n \in 1..ArithLeaves}

(* the grammar level a tree is produced at: unit, bigunit, factor, expr *)
Level(t) ==
    CASE t[1] = "Int" -> 0
      [] t[1] = "negate" -> 1
      [] t[1] = "*" -> 2
      [] t[1] = "+" -> 3

DigitChar(n) == CHOOSE c \in Digits : DigitVal(c) = n

(* the text of a tree: operators between blanks, parentheses only where    *)
(* the grammar needs them                                                  *)
RECURSIVE Render(_)
Render(t) ==
    LET Wrap(x, level) == IF Level(x) <= level THEN Render(x)
                          ELSE <<"(">> \o Render(x) \o <<")">>
    IN  CASE t[1] = "Int" -> <<DigitChar(t[2])>>
          [] t[1] = "negate" -> <<"-">> \o Wrap(t[2], 0)
          [] t[1] = "*" -> Wrap(t[2], 1) \o <<" ", "*", " ">> \o Wrap(t[3], 2)
          [] t[1] = "+" -> Wrap(t[2], 2) \o <<" ", "+", " ">> \o Wrap(t[3], 3)

ArithInputs(n) == {Render(t) : t \in ArithAsts}

InitArith == InitOf({"arith"}, [n \in {"arith"} |-> ArithInputs(n)])

SpecArith == InitArith /\ [][NextRun]_vars

(* a grammar that refers to itself on the right of a chain:                *)
(* lst = (Int >> lst) | Int, run on lists of one-digit integers            *)
Lists == UNION {[1..n -> 1..3] : n \in 1..ListLen}

(* the text of a list: its integers with a blank between them *)
RECURSIVE RenderList(_)
RenderList(ns) ==
    IF Len(ns) = 1 THEN <<DigitChar(ns[1])>>
    ELSE <<DigitChar(ns[1]), " ">> \o RenderList(Tail(ns))

ListInputs(n) == {RenderList(ns) : ns \in Lists}

InitList == InitOf({"list"}, [n \in {"list"} |-> ListInputs(n)])

SpecList == InitList /\ [][NextRun]_vars

----------------------------------------------------------------------------
(* Lazy iterators (LazyIterator.hh).                                       *)
(*                                                                         *)
(* LazyIteratorWithGenerator over StupidGen, whose k-th call returns k - 1.*)
(* Here st is the iterator:                                                *)
(*   count_, cached_   its members                                         *)
(*   now               gen_.now: the calls of the generator made so far    *)
(*   max               history: the max_count it was built with            *)
(*   adv               history: the advances that did not throw            *)

MaxCount == 5      \* largest max_count an iterator is built with
MaxAdv == 7        \* most operator++ calls in one behaviour

(* cached_ = gen_() *)
GenCall(it) == [it EXCEPT !.cached_ = it.now, !.now = @ + 1]

(* LazyIteratorWithGenerator(gen, count); cached_ is not initialized when  *)
(* count is 0, j is what it then holds                                     *)
GenNew(n, j) ==
    LET it == [count_ |-> n, cached_ |-> j, now |-> 0, max |-> n, adv |-> 0]
    IN  IF n # 0 THEN GenCall(it) ELSE it

(* ok() *)
GenOk(it) == it.count_ = -1 \/ it.count_ > 0

(* a variant of next() that tests count_-- (the value before the           *)
(* decrement)                                                              *)
GenNextPost(it) ==
    IF it.count_ # -1
    THEN IF it.count_ # 0 THEN GenCall([it EXCEPT !.count_ = @ - 1])
         ELSE [it EXCEPT !.count_ = @ - 1]
    ELSE GenCall(it)

(* next(): if ( count_ != -1 ) { if ( --count_ != 0 ) cached_ = gen_(); }  *)
(* else cached_ = gen_();                                                  *)
GenNext(it) ==
    IF it.count_ # -1
    THEN IF it.count_ - 1 # 0 THEN GenCall([it EXCEPT !.count_ = @ - 1])
         ELSE [it EXCEPT !.count_ = @ - 1]
    ELSE GenCall(it)

InitGen ==
    /\ gname = "generator"
    /\ \E n \in -1..MaxCount : \E j \in {0, 1} : st = GenNew(n, j)
    /\ op = "init"
    /\ ret = "none"
    /\ pre = <<>>
    /\ pend = <<>>
    /\ out = Null
    /\ nops = 0
    /\ runs = <<>>

(* operator++: must_ok(); next(); StopIteration leaves the iterator as is *)
GenAdvance ==
    /\ nops < MaxAdv
    /\ IF GenOk(st)
       THEN st' = [GenNext(st) EXCEPT !.adv = @ + 1] /\ op' = "advance"
       ELSE st' = st /\ op' = "throw"
    /\ nops' = nops + 1
    /\ UNCHANGED <<gname, ret, pre, pend, out, runs>>

(* operator*: must_ok(); return cached_ *)
GenDeref ==
    /\ IF GenOk(st)
       THEN out' = st.cached_ /\ op' = "deref"
       ELSE out' = out /\ op' = "throw"
    /\ UNCHANGED <<gname, st, ret, pre, pend, nops, runs>>

NextGen == GenAdvance \/ GenDeref

SpecGen == InitGen /\ [][NextGen]_vars

----------------------------------------------------------------------------
(* groupSame: LazyIteratorWithJoin with tWithCountJoiner over a            *)
(* LazyIteratorRaw on a vector.  Here st is the grouping iterator:         *)
(*   vec      the vector the internal iterator runs over                   *)
(*   beg      internal_iter_.beg as an offset into vec (end is its size)   *)
(*   after_, cached_   the members of LazyIteratorWithJoin                 *)
(*   got      history: the groups the iterator was advanced over           *)

GroupLen == 4      \* longest vector that is grouped
GroupAdv == 5      \* most operator++ calls in one behaviour

(* the elements of the vectors; 0 is the value a default T holds *)
Elems == {0, 1, 2}

(* AfterType(): TWithCount<T>{} *)
NoGroup == [t |-> 0, count |-> 0]

(* LazyIteratorRaw::ok, operator* *)
RawOk(it) == it.beg # Len(it.vec)
RawDeref(it) == it.vec[it.beg + 1]

(* a variant of the joiner that leaves tw.t as it was constructed *)
tWithCountJoinerKeep(tw, t) ==
    IF tw.count = 0 \/ tw.t = t
    THEN [p |-> TRUE, tw |-> [tw EXCEPT !.count = @ + 1]]
    ELSE [p |-> FALSE, tw |-> tw]

(* tWithCountJoiner: what it returns and what it leaves in tw *)
tWithCountJoiner(tw, t) ==
    IF tw.count = 0 \/ tw.t = t
    THEN [p |-> TRUE, tw |-> [t |-> IF tw.count = 0 THEN t ELSE tw.t,
                              count |-> tw.count + 1]]
    ELSE [p |-> FALSE, tw |-> tw]

(* while ( internal_iter_.ok() && joiner_(after_, *internal_iter_) )       *)
(*     ++internal_iter_;                                                   *)
RECURSIVE JoinRun(_)
JoinRun(it) ==
    IF ~RawOk(it) THEN it
    ELSE LET j == tWithCountJoiner(it.after_, RawDeref(it))
         IN  IF j.p THEN JoinRun([it EXCEPT !.after_ = j.tw, !.beg = @ + 1])
             ELSE [it EXCEPT !.after_ = j.tw]

(* LazyIteratorWithJoin::advance *)
JoinAdvance(it) ==
    IF ~RawOk(it) THEN it
    ELSE JoinRun([it EXCEPT !.cached_ = TRUE, !.after_ = NoGroup])

(* makeLazyIterator(vec.begin(), vec.end()).groupSame(): the constructor   *)
(* of LazyIteratorWithJoin calls advance(); after_.t is not initialized    *)
(* before it, j is what it holds                                           *)
GroupSame(vec, j) ==
    JoinAdvance([vec |-> vec, beg |-> 0, after_ |-> [t |-> j, count |-> 0],
                 cached_ |-> FALSE, got |-> <<>>])

Vectors == UNION {[1..n -> Elems] : n \in 0..GroupLen}

InitGroup ==
    /\ gname = "groupSame"
    /\ \E vec \in Vectors : \E j \in Elems : st = GroupSame(vec, j)
    /\ op = "init"
    /\ ret = "none"
    /\ pre = <<>>
    /\ pend = <<>>
    /\ out = Null
    /\ nops = 0
    /\ runs = <<>>

(* operator++: must_ok(); cached_ = false; advance() *)
GroupAdvance ==
    /\ nops < GroupAdv
    /\ IF st.cached_
       THEN /\ st' = JoinAdvance([st EXCEPT !.cached_ = FALSE,
                                            !.got = Append(@, st.after_)])
            /\ op' = "advance"
       ELSE st' = st /\ op' = "throw"
    /\ nops' = nops + 1
    /\ UNCHANGED <<gname, ret, pre, pend, out, runs>>

(* operator*: must_ok(); return after_ *)
GroupDeref ==
    /\ IF st.cached_
       THEN out' = st.after_ /\ op' = "deref"
       ELSE out' = out /\ op' = "throw"
    /\ UNCHANGED <<gname, st, ret, pre, pend, nops, runs>>

NextGroup == GroupAdvance \/ GroupDeref

SpecGroup == InitGroup /\ [][NextGroup]_vars

----------------------------------------------------------------------------
(* Properties *)

ParseOps == {"chr", "str", "int", "lit", "end", "eps", "alt", "seq", "many", "sem", "ref"}

(* every node call made by the last top-level call, once that call has    *)
(* returned                                                                *)
Events == IF st.err = "" THEN {st.log[i] : i \in 1..Len(st.log)} ELSE {}

(* the expression of the object id of the grammar under test *)
ExprAt(id) == (CHOOSE o \in Objects(gname) : o[1] = id)[2]

(* the engine over the same buffer with every node as constructed, at pos *)
FreshAt(pos) ==
    [st EXCEPT !.ns = FreshNodes(gname), !.pos = pos, !.steps = 0, !.log = <<>>,
               !.err = ""]

(* what the expression g matches at pos when its nodes are fresh *)
Match(g, id, pos) == Parse(g, id, FreshAt(pos))

(* the position after the consecutive matches of g from pos on *)
RECURSIVE AfterMatches(_, _, _)
AfterMatches(g, id, pos) ==
    LET r == Match(g, id, pos) IN
    IF r.ok /\ r.e.pos > pos THEN AfterMatches(g, id, r.e.pos) ELSE pos

(* the undo log of every node: choice / length stack, skip stack, counter *)
UndoLog(ns) == [id \in DOMAIN ns |-> <<ns[id].stk, ns[id].skp, ns[id].cnt>>]

UndoLogEmpty(ns) == \A id \in DOMAIN ns : UndoLog(ns)[id] = <<<<>>, <<>>, 0>>

(* C1: restoration invariant.  Whenever parse of a node of any kind, at    *)
(* any depth, returns false, the cursor is where it was when that parse    *)
(* was entered; the same for the top-level call.                           *)
C1_Restoration ==
    /\ \A ev \in Events : (ev.op \in ParseOps /\ ~ev.ok) => ev.p1 = ev.p0
    /\ (op = "parse" /\ ret = "false") => st.pos = pre.pos

(* C2: sequence atomicity.  Whenever a chain's left child matched and its  *)
(* right child then failed, the chain returns false with the cursor where  *)
(* it was before the left child ran.                                       *)
C2_SequenceAtomic ==
    \A ev \in Events : (ev.op = "seq" /\ ev.x = 1) => (~ev.ok /\ ev.p1 = ev.p0)

(* C3: Repetition.unparse calls the wrapped unparse as many times as the   *)
(* attempt being undone matched and leaves the cursor at the position that *)
(* attempt started from.                                                   *)
C3_ManyUndo ==
    \A ev \in Events :
        (ev.op = "unmany" /\ ev.x[2] # <<>>) =>
            (ev.x[1] = ev.x[2][2] /\ ev.p1 = ev.x[2][1])

(* C4: Repetition.parse returns true and leaves the cursor right after the *)
(* last of the consecutive matches of the wrapped grammar.                 *)
C4_ManyCount ==
    \A ev \in Events :
        ev.op = "many" =>
            (ev.ok /\ ev.p1 = AfterMatches(ExprAt(ev.n).a, Kid(ev.n, 1), ev.p0))

(* C5: alternation precedence.  Every Alternative.parse entered where both *)
(* branches match returns true, with Which_A on top of whichs, without     *)
(* having tried B, the cursor moved as A moves it and A's result held.     *)
C5_AltPrecedence ==
    \A i \in 1..Len(st.log) :
        LET ev == st.log[i] IN
        ev.op \in {"alt", "alt!"} =>
            LET g == ExprAt(ev.n)
                ra == Match(g.a, Kid(ev.n, 1), ev.p0)
                rb == Match(g.b, Kid(ev.n, 2), ev.p0)
            IN  (ra.ok /\ rb.ok) =>
                    /\ ev.op = "alt"
                    /\ ev.ok
                    /\ ev.x = <<WhichA, FALSE>>
                    /\ ev.p1 = ra.e.pos
                    /\ ev.v = <<WhichA, GetResult(g.a, Kid(ev.n, 1), ra.e).v>>

(* C6: unparse after a successful top-level parse puts the cursor and the  *)
(* undo log of every node back to what they were before that parse.        *)
C6_UnparseRestores ==
    (op = "unparse" /\ st.err = "") =>
        (st.pos = pre.pos /\ UndoLog(st.ns) = UndoLog(pre.ns))

(* C7: after the first top-level parse of fresh nodes is fully unwound (it *)
(* failed, or it succeeded and was unparsed) every undo log is empty.      *)
C7_UnwoundEmpty ==
    (st.err = "" /\ \/ (op = "parse" /\ ret = "false" /\ nops = 1)
                    \/ (op = "unparse" /\ nops = 2))
        => UndoLogEmpty(st.ns)

(* C8: after the first top-level parse of fresh nodes is committed (it     *)
(* returned true and the result was taken) every undo log is empty.        *)
C8_CommittedEmpty ==
    (op = "result" /\ nops = 1) => UndoLogEmpty(st.ns)

(* the buffer without its blanks *)
Squeeze(s) == SelectSeq(s, LAMBDA c : c \notin Space)

(* the number of leading "{" *)
RECURSIVE Opens(_)
Opens(z) == IF z # <<>> /\ Head(z) = "{" THEN 1 + Opens(Tail(z)) ELSE 0

(* the buffer starts, blanks aside, with m >= 1 "{" and then m "}" *)
Nested(s) ==
    LET z == Squeeze(s)
        m == Opens(z)
    IN  m >= 1 /\ Len(z) >= 2 * m /\ \A i \in (m + 1)..(2 * m) : z[i] = "}"

(* the offset right after the n-th byte of s that is no blank *)
RECURSIVE After(_, _, _)
After(s, n, at) ==
    IF n = 0 THEN at
    ELSE After(s, IF s[at + 1] \in Space THEN n ELSE n - 1, at + 1)

Balanced2 == <<"{", " ", "{", " ", "}", " ", "}">>
Unterminated == <<"{", " ", "{", " ", " ", "}">>

(* C9: the brace grammar dp = "{" "}" | "{" dp "}", run once from offset 0 *)
(* of a fresh stream, returns true exactly on the buffers that start with  *)
(* a balanced nesting (so on "{ }" and "{ { } }"), with the cursor right   *)
(* after the last "}" of it, and false with the cursor back at 0 on all    *)
(* others, the unterminated "{ {  }" among them.                           *)
C9_BraceRecursive ==
    (gname = "brace" /\ op = "parse" /\ nops = 1) =>
        /\ ret = IF Nested(st.buf) THEN "true" ELSE "false"
        /\ ret = "true" => st.pos = After(st.buf, 2 * Opens(Squeeze(st.buf)), 0)
        /\ ret = "false" => st.pos = 0
        /\ st.buf = Unterminated => (ret = "false" /\ st.pos = 0)

C9_Witness ==
    /\ gname = "brace" /\ op = "parse" /\ nops = 1
    /\ st.buf = Balanced2 /\ ret = "true" /\ st.pos = 7

Input123 == <<"(", "1", " ", "+", " ", "2", ")", " ", "*", " ", "3">>
Tree123 == MulV(AddV(IntV(1), IntV(2)), IntV(3))

(* C10: with the grammar of test3, the first parse of the text of a tree   *)
(* returns true at the end of the text and getResult then hands over that  *)
(* tree; "(1 + 2) * 3" gives Mul(Add(Int 1, Int 2), Int 3).                *)
C10_ArithTree ==
    /\ (gname = "arith" /\ op = "parse" /\ nops = 1) =>
           (ret = "true" /\ st.pos = Len(st.buf))
    /\ (gname = "arith" /\ op = "result" /\ nops = 1) =>
           /\ \A t \in ArithAsts : Render(t) = st.buf => out = t
           /\ st.buf = Input123 => out = Tree123

C10_Witness ==
    /\ gname = "arith" /\ op = "result" /\ nops = 1
    /\ st.buf = Input123 /\ out = Tree123

----------------------------------------------------------------------------
(* Blanks between tokens: the grammar of test3 on a text and on the same   *)
(* text with blanks at its token boundaries                                *)

SpaceLeaves == 2    \* operands of the trees whose texts are tried
SpaceLen == 3       \* longest text over SpaceAlpha that is tried

SpaceAlpha == {"1", "+", "(", ")"}

(* s with a blank or none in every gap between two bytes that are not two  *)
(* digits of one integer                                                   *)
RECURSIVE Spaced(_)
Spaced(s) ==
    IF Len(s) <= 1 THEN {s}
    ELSE LET gaps == IF s[1] \in Digits /\ s[2] \in Digits THEN {<<>>}
                     ELSE {<<>>, <<" ">>}
         IN  {<<s[1]>> \o gap \o r : gap \in gaps, r \in Spaced(Tail(s))}

TightTexts ==
    {Squeeze(Render(t)) : t \in UNION {Asts(1, n, ArithNegs) : n \in 1..SpaceLeaves}}
        \cup Strings(SpaceAlpha, SpaceLen)

SpaceInputs(n) == UNION {Spaced(z) : z \in TightTexts}

InitSpace == InitOf({"arith"}, [n \in {"arith"} |-> SpaceInputs(n)])

SpecSpace == InitSpace /\ [][NextRun]_vars

(* the first parse of the same grammar on the text without its blanks *)
TightRun == Parse(Root(gname), <<gname>>, NewEngine(gname, Squeeze(st.buf)))

Spaced12 == <<"1", " ", "+", " ", "2">>

(* C11: whitespace neutrality.  The first parse of a text with blanks      *)
(* between its tokens returns what the parse of the text without them      *)
(* returns, and getResult hands over the same value.                       *)
C11_SpaceNeutral ==
    (nops = 1 /\ st.err = "") =>
        /\ op = "parse" => ret = IF TightRun.ok THEN "true" ELSE "false"
        /\ op = "result" => out = GetResult(Root(gname), <<gname>>, TightRun.e).v

C11_Witness ==
    /\ op = "result" /\ nops = 1 /\ st.buf = Spaced12
    /\ out = AddV(IntV(1), IntV(2))


----------------------------------------------------------------------------
(* Semantic actions *)

(* the history of the last top-level call, if the program is still running *)
LogIdx == IF st.err = "" THEN 1..Len(st.log) ELSE {}

(* C12: the transform of a semantic-action node is called exactly once per *)
(* successful match of the node, right after the match: the next call      *)
(* recorded after the match, returns of enclosing forwarding nodes aside,  *)
(* is the node's transform, and no second call of it follows before the    *)
(* node matches again.                                                     *)
C12_TransformOnce ==
    \A i \in LogIdx :
        (st.log[i].op = "sem" /\ st.log[i].ok) =>
            \E j \in LogIdx :
                /\ j > i
                /\ st.log[j].op = "func" /\ st.log[j].n = st.log[i].n
                /\ \A k \in (i + 1)..(j - 1) : st.log[k].op \in {"sem", "ref"}
                /\ \A k \in LogIdx :
                       (k > j /\ st.log[k].op = "func" /\ st.log[k].n = st.log[i].n) =>
                           \E l \in (j + 1)..(k - 1) :
                               st.log[l].op = "sem" /\ st.log[l].ok /\ st.log[l].n = st.log[i].n


----------------------------------------------------------------------------
(* maybe, manyIndeed, ParserEnd *)

(* C13: maybe(P).parse returns true on every input, and where P does not   *)
(* match it leaves the cursor where it was.                                *)
C13_MaybeSucceeds ==
    (gname = "maybe" /\ op = "parse" /\ st.err = "") =>
        /\ ret = "true"
        /\ ~Match(Root(gname).a, Kid(<<gname>>, 1), pre.pos).ok => st.pos = pre.pos


----------------------------------------------------------------------------
(* Structural misuse *)

(* the program stopped on a failed assertion *)
Asserted == st.err \in {"assert:whichs", "assert:counts", "assert:unskip",
                        "assert:result", "assert:0"}

(* C14: unparse of a node whose undo log is empty stops the program on an  *)
(* assertion, whatever the kind of the node.                               *)
C14_StrayUnparseLoud ==
    (op = "stray" /\ UndoLogEmpty(pre.ns)) => Asserted


(* C15: an assignment to a DeferredParser that already holds a grammar     *)
(* stops the program on the assertion and leaves the grammar it held.      *)
C15_AssignOnce ==
    [][\A d \in DOMAIN st.ops :
           (op' = "assign" /\ st.ops[d] # NoOps) =>
               (st'.err = "assert:ops" /\ st'.ops = st.ops /\ st'.ns = st.ns)]_vars

C15_Witness ==
    /\ op = "assign" /\ st.err = "assert:ops" /\ nops = 3
    /\ st.ops["dp"] = Chain(Str(<<"{">>), Str(<<"}">>))


(* C16: a put that retreats the cursor past offset 0 stops the program on  *)
(* the assertion of put; the cursor does not wrap (a wrapped cursor is     *)
(* the negative representative here).                                      *)
C16_RetreatChecked ==
    (op = "put" /\ ~Asserted) => st.pos >= 0


----------------------------------------------------------------------------
(* Cursor *)

(* grammars without a repetition nested in a chain: single nodes, test's   *)
(* chain of three and a chain of an alternative and the end                *)
PlainNames == NodeNames \cup {"seq", "prim"}

InitPlain == InitOf(PlainNames, [n \in PlainNames |-> Inputs(n)])

SpecPlain == InitPlain /\ [][Next]_vars

(* C17: cursor invariant.  In every state the program reaches by parse    *)
(* and by unparse of a parse that succeeded, the state it stops in on an   *)
(* assertion included, the cursor is within the buffer:                    *)
(* 0 <= cur_pos <= size.                                                   *)
C17_CursorInRange ==
    0 <= st.pos /\ st.pos <= Len(st.buf)



(* the bytes from offset p on *)
Rest(s, p) == SubSeq(s, p + 1, Len(s))

(* the first byte from the cursor on that is no blank is "a" *)
StartsWithA ==
    LET z == Squeeze(Rest(st.buf, pre.pos)) IN z # <<>> /\ z[1] = "a"

TwoTokens == <<"a", " ", "a">>

C19_OneOrMore ==
    (gname = "indeed" /\ op = "parse" /\ st.err = "") =>
        LET g == Root(gname)
            first == Match(Str(<<"a">>), Kid(<<gname>>, 1), pre.pos)
        IN  /\ g = Chain(Str(<<"a">>), Many(Str(<<"a">>)))
            /\ ret = IF first.ok THEN "true" ELSE "false"
            /\ ret = "true" =>
                   st.pos = AfterMatches(Str(<<"a">>), Kid(<<gname>>, 1), pre.pos)
            /\ ret = "false" => st.pos = pre.pos

C19_Witness ==
    /\ gname = "indeed" /\ op = "parse" /\ nops = 1 /\ ret = "true"
    /\ st.buf = TwoTokens /\ st.pos = 3



----------------------------------------------------------------------------
(* End of input *)

(* nothing but blanks from offset p on *)
OnlyBlanks(p) == \A i \in (p + 1)..Len(st.buf) : st.buf[i] = " "

(* C20 as stated: End returns true only when no byte at all is left at the *)
(* cursor at which it is attempted; any byte left, a blank included, makes *)
(* it return false.                                                        *)
C20_EndOnlyAtEnd ==
    (gname \in {"end", "endn"} /\ op = "parse" /\ st.err = "") =>
        (ret = "true" <=> pre.pos >= Len(st.buf))

(* C20, amended: End returns true exactly when no byte is left after its   *)
(* skip policy has run from the cursor at which it is attempted: under     *)
(* SkipPolicySpace when nothing but blanks is left, the cursor then at the *)
(* end of the input, under SkipPolicyNone when nothing is left; otherwise  *)
(* it returns false with the cursor unchanged.                             *)
C20_EndAfterSkip ==
    (gname \in {"end", "endn"} /\ op = "parse" /\ st.err = "") =>
        LET clear == IF Root(gname).sp THEN OnlyBlanks(pre.pos)
                     ELSE pre.pos >= Len(st.buf)
        IN  /\ ret = IF clear THEN "true" ELSE "false"
            /\ ret = "true" => st.pos = Len(st.buf)
            /\ ret = "false" => st.pos = pre.pos

C20_Witness ==
    /\ gname = "end" /\ op = "parse" /\ ret = "true"
    /\ st.buf = <<"a", " ">> /\ pre.pos = 1 /\ st.pos = 2



(* C21 as stated: ParserEnd::parse never consumes: whatever it returns,    *)
(* the cursor is where it was before the call.                             *)
C21_EndNeverMoves ==
    (gname \in {"end", "endn"} /\ op = "parse" /\ st.err = "") => st.pos = pre.pos

(* C21, amended: ParserEnd::parse consumes no byte of its own.  When it    *)
(* returns false the cursor is where it was before the call; when it       *)
(* returns true the cursor has moved over the blanks its skip policy       *)
(* skipped and over nothing else, and that length is on top of the skip    *)
(* stack for unparse to give back (under SkipPolicyNone it has not moved). *)
C21_EndConsumesOnlySkip ==
    (gname \in {"end", "endn"} /\ op = "parse" /\ st.err = "") =>
        LET me == st.ns[<<gname>>] IN
        /\ ret = "false" => (st.pos = pre.pos /\ me.skp = pre.ns[<<gname>>].skp)
        /\ ret = "true" =>
               /\ \A i \in (pre.pos + 1)..st.pos : st.buf[i] \in Space
               /\ st.pos - pre.pos = IF Root(gname).sp THEN Top(me.skp) ELSE 0
               /\ Root(gname).sp => Pop(me.skp) = pre.ns[<<gname>>].skp

C21_Witness ==
    /\ gname = "end" /\ op = "parse" /\ ret = "true" /\ nops = 1
    /\ st.buf = <<" ", " ">> /\ pre.pos = 0 /\ st.pos = 2
    /\ st.ns[<<gname>>].skp = <<2>>



----------------------------------------------------------------------------
(* Primitive parsers *)

(* s without its leading blanks *)
RECURSIVE Lead(_)
Lead(s) == IF s # <<>> /\ Head(s) \in Space THEN Lead(Tail(s)) ELSE s

(* the text the last successful top-level parse matched, blanks before it  *)
(* aside                                                                   *)
MatchedText == Lead(SubSeq(st.buf, Top(pend).pos + 1, st.pos))

(* the decimal number a run of digits spells *)
RECURSIVE Decimal(_)
Decimal(ds) ==
    IF ds = <<>> THEN 0 ELSE 10 * Decimal(SubSeq(ds, 1, Len(ds) - 1)) + DigitVal(ds[Len(ds)])

(* C22: after a successful parse of a char, string, integer or quoted-     *)
(* string parser, getResult hands over a value that is not null and is the *)
(* text just matched: the string, the number its digits spell, the bytes   *)
(* between the quotes.                                                     *)
C22_ResultOfMatch ==
    (gname \in {"chr", "chrn", "str", "number", "quoted"} /\ op = "result") =>
        /\ out # Null
        /\ gname = "str" => out = StrV(MatchedText)
        /\ gname = "number" => out = IntV(Decimal(MatchedText))
        /\ gname = "quoted" =>
               out = StrV(SubSeq(MatchedText, 2, Len(MatchedText) - 1))



(* C23: when the parse of a char, string, integer, quoted-string or end    *)
(* parser returns false, the cursor is where the parse found it, blanks    *)
(* skipped included, and its skip-length stack and its own length stack    *)
(* are as deep as before the call.                                         *)
C23_FailureRestores ==
    (gname \in LeafNames /\ op = "parse" /\ ret = "false" /\ st.err = "") =>
        LET me == st.ns[<<gname>>]
            was == pre.ns[<<gname>>]
        IN  /\ st.pos = pre.pos
            /\ Len(me.skp) = Len(was.skp)
            /\ Len(me.stk) = Len(was.stk)

(* an integer matched and left its lengths on the stacks; the next parse   *)
(* skips a blank, finds no digit and fails                                 *)
C23_Witness ==
    /\ gname = "number" /\ op = "parse" /\ ret = "false" /\ nops = 2
    /\ st.buf = <<"1", " ", "x">> /\ pre.pos = 1 /\ st.pos = 1
    /\ st.ns[<<gname>>].skp = <<0>> /\ st.ns[<<gname>>].stk = <<1>>



(* from the cursor of the last call on, blanks aside, the buffer holds an  *)
(* opening quote and no closing one                                        *)
OpenQuote ==
    LET z == Lead(Rest(st.buf, pre.pos))
    IN  z # <<>> /\ z[1] = Quote /\ \A i \in 2..Len(z) : z[i] # Quote

(* C24: when the opening quote is found and the input ends before a        *)
(* closing quote, the quoted-string parse returns false with the cursor    *)
(* back at the position before the call, over the content bytes, the       *)
(* opening quote and the blanks skipped, and with its stacks as they were. *)
C24_UnterminatedRetreats ==
    (gname = "quoted" /\ op = "parse" /\ st.err = "" /\ OpenQuote) =>
        /\ ret = "false"
        /\ st.pos = pre.pos
        /\ st.ns = pre.ns

C24_Witness ==
    /\ gname = "quoted" /\ op = "parse" /\ nops = 1 /\ OpenQuote
    /\ st.buf = <<" ", Quote, "x">> /\ ret = "false" /\ st.pos = 0



(* the leading digits of s *)
RECURSIVE DigitRun(_)
DigitRun(s) ==
    IF s # <<>> /\ Head(s) \in Digits THEN <<Head(s)>> \o DigitRun(Tail(s)) ELSE <<>>

(* C25: the integer parser, blanks skipped, returns false when the next    *)
(* byte is no decimal digit (or there is none); otherwise it consumes the  *)
(* longest run of digits, up to the first byte that is no digit or to the  *)
(* end of the input, its value is the decimal number the run spells, and   *)
(* unparse retreats over the digits and the blanks skipped, back to where  *)
(* that parse began.                                                       *)
C25_IntegerRun ==
    (gname = "number" /\ st.err = "") =>
        LET me == st.ns[<<gname>>]
            rest == Rest(st.buf, pre.pos)
            run == DigitRun(Lead(rest))
        IN  /\ op = "parse" =>
                /\ ret = IF run = <<>> THEN "false" ELSE "true"
                /\ ret = "true" =>
                       /\ st.pos = pre.pos + (Len(rest) - Len(Lead(rest))) + Len(run)
                       /\ me.num = Decimal(run)
                       /\ Top(me.stk) = Len(run)
                       /\ Top(me.skp) = Len(rest) - Len(Lead(rest))
            /\ op = "unparse" =>
                /\ st.pos = pre.pos
                /\ me.stk = pre.ns[<<gname>>].stk
                /\ me.skp = pre.ns[<<gname>>].skp

C25_Witness ==
    /\ gname = "number" /\ op = "unparse" /\ nops = 2 /\ st.err = ""
    /\ st.buf = <<" ", "1", "2">> /\ st.pos = 0 /\ st.ns[<<gname>>].num = 12



----------------------------------------------------------------------------
(* Skip policy *)

(* C26: skip moves the cursor past the longest run of blanks at it, to the *)
(* first byte that is no blank or to the end of the input, and pushes the  *)
(* number of bytes it consumed; the unskip that follows pops that entry    *)
(* and puts the cursor back where that skip found it, also when the run    *)
(* reached the end of the input.                                           *)
C26_SkipRoundTrip ==
    (gname = "skipper" /\ st.err = "") =>
        LET me == st.ns[<<gname>>]
            was == pre.ns[<<gname>>]
        IN  /\ op = "skip" =>
                /\ pre.pos <= st.pos /\ st.pos <= Len(st.buf)
                /\ \A i \in (pre.pos + 1)..st.pos : st.buf[i] \in Space
                /\ st.pos < Len(st.buf) => st.buf[st.pos + 1] \notin Space
                /\ me.skp = Push(was.skp, st.pos - pre.pos)
            /\ op = "unskip" => (st.pos = pre.pos /\ me.skp = was.skp)

(* a run of two blanks up to the end of the input, skipped and given back *)
C26_Witness ==
    /\ gname = "skipper" /\ op = "unskip" /\ nops = 2 /\ st.err = ""
    /\ st.buf = <<"a", " ", "\t">> /\ st.pos = 1 /\ st.ns[<<gname>>].skp = <<>>



----------------------------------------------------------------------------
(* Chains *)

(* the value of lst = (Int >> lst) | Int on the list ns: the tuple of the  *)
(* first integer and the value of the rest                                 *)
RECURSIVE ListValue(_)
ListValue(ns) ==
    IF Len(ns) = 1 THEN IntV(ns[1])
    ELSE TupV(<<IntV(ns[1]), ListValue(Tail(ns))>>)

List123 == <<"1", " ", "2", " ", "3">>

(* C27: a chain takes its left child's result when the left child has      *)
(* matched and before its right child is parsed.  In lst = (Int >> lst) |  *)
(* Int the right child runs the same chain and the same Int node again, so *)
(* the value of the first parse of a list holds at every depth the integer *)
(* that invocation matched: "1 2 3" gives (1, (2, 3)).                     *)
C27_CaptureBeforeRight ==
    /\ (gname = "list" /\ op = "parse" /\ nops = 1) =>
           (ret = "true" /\ st.pos = Len(st.buf))
    /\ (gname = "list" /\ op = "result" /\ nops = 1) =>
           /\ \A ns \in Lists : RenderList(ns) = st.buf => out = ListValue(ns)
           /\ st.buf = List123 =>
                  out = TupV(<<IntV(1), TupV(<<IntV(2), IntV(3)>>)>>)

C27_Witness ==
    /\ gname = "list" /\ op = "result" /\ nops = 1 /\ st.buf = List123
    /\ out = TupV(<<IntV(1), TupV(<<IntV(2), IntV(3)>>)>>)
    /\ st.ns[<<"lst", 1, 1>>].num = 3



(* the text the last successful parse matched, without its blanks *)
MatchedTight == Squeeze(SubSeq(st.buf, Top(pend).pos + 1, st.pos))

(* C28: the result of a chain is the values of its left child followed by  *)
(* the values of its right child: as many elements as both children have   *)
(* together, end-of-input and epsilon adding none, in the order of the     *)
(* grammar.  (Int >> Eps >> "a") >> (Int >> End) hands over the first      *)
(* integer, the string and the second integer; "a" >> ' ' >> "b" three     *)
(* elements with the strings first and last.                               *)
C28_ChainConcatenates ==
    (gname \in {"tuple", "seq"} /\ op = "result") =>
        /\ out[1] = "Tuple"
        /\ Len(out[2]) = Arity(Root(gname).a) + Arity(Root(gname).b)
        /\ Len(out[2]) = 3
        /\ gname = "tuple" =>
               LET d1 == DigitRun(MatchedTight)
                   d2 == DigitRun(SubSeq(MatchedTight, Len(d1) + 2, Len(MatchedTight)))
               IN  out[2] = <<IntV(Decimal(d1)), StrV(<<"a">>), IntV(Decimal(d2))>>
        /\ gname = "seq" => (out[2][1] = StrV(<<"a">>) /\ out[2][3] = StrV(<<"b">>))

C28_Witness ==
    /\ gname = "tuple" /\ op = "result" /\ st.buf = <<"1", "a", "2">>
    /\ out = TupV(<<IntV(1), StrV(<<"a">>), IntV(2)>>)



UnparseOps == {"un" \o k : k \in ParseOps}

(* the latest call of node id recorded before the i-th, 0 if there is none *)
LastOf(id, i) ==
    LET js == {j \in 1..(i - 1) : st.log[j].n = id}
    IN  IF js = {} THEN 0 ELSE CHOOSE j \in js : \A k \in js : k <= j

(* C29: every ParserChain::unparse undoes the right child first and the    *)
(* left child after it, each once: of the unparse calls of its children    *)
(* recorded since the chain's own previous call, the first is the right    *)
(* child's, entered where the chain's unparse was entered, the second and  *)
(* last the left child's, entered where the right child's left the cursor, *)
(* and the chain returns where the left child's left it.                   *)
C29_UnparseRightThenLeft ==
    \A i \in LogIdx :
        st.log[i].op = "unseq" =>
            LET id == st.log[i].n
                kids == {j \in (LastOf(id, i) + 1)..(i - 1) :
                            /\ st.log[j].n \in {Kid(id, 1), Kid(id, 2)}
                            /\ st.log[j].op \in UnparseOps}
            IN  \E b \in kids : \E a \in kids :
                    /\ kids = {a, b}
                    /\ b < a
                    /\ st.log[b].n = Kid(id, 2)
                    /\ st.log[a].n = Kid(id, 1)
                    /\ st.log[b].p0 = st.log[i].p0
                    /\ st.log[a].p0 = st.log[b].p1
                    /\ st.log[a].p1 = st.log[i].p1

(* the chain of three, matched on "a b" and undone: "b" is put back first *)
C29_Witness ==
    /\ gname = "seq" /\ op = "unparse" /\ nops = 2 /\ st.err = ""
    /\ st.buf = <<"a", " ", "b">> /\ st.pos = 0
    /\ \E i \in LogIdx : \E j \in LogIdx :
           /\ i < j
           /\ st.log[i].op = "unstr" /\ st.log[i].n = <<"seq", 2>> /\ st.log[i].p0 = 3
           /\ st.log[j].op = "unseq" /\ st.log[j].n = <<"seq", 1>> /\ st.log[j].p1 = 0



----------------------------------------------------------------------------
(* Alternatives *)

AltIds == {o[1] : o \in {x \in Objects(gname) : x[2].k = "alt"}}

(* no stack of branches *)
Mismatch == <<0>>

(* whichs of the alternative id after the calls log[i], log[i + 1], ..     *)
(* when it is stk before them: each success pushes its branch, each        *)
(* unparse pops on entry the branch of the latest success still pending    *)
(* and has, when it returns, undone the child of the branch it popped (the *)
(* child call that returned right before it) and no other.  Mismatch when  *)
(* an unparse popped or undid anything else                                *)
RECURSIVE AltReplay(_, _, _, _)
AltReplay(id, stk, log, i) ==
    IF i > Len(log) THEN stk
    ELSE IF log[i].n = id /\ log[i].op = "alt" /\ log[i].ok
         THEN AltReplay(id, Push(stk, log[i].x[1]), log, i + 1)
    ELSE IF log[i].n = id /\ log[i].op = "whichs.pop"
         THEN IF stk # <<>> /\ log[i].x = Top(stk)
              THEN AltReplay(id, Pop(stk), log, i + 1)
              ELSE Mismatch
    ELSE IF log[i].n = id /\ log[i].op = "unalt"
         THEN IF /\ i > 1
                 /\ log[i - 1].op \in UnparseOps
                 /\ log[i - 1].n = Kid(id, IF log[i].x = WhichA THEN 1 ELSE 2)
              THEN AltReplay(id, stk, log, i + 1)
              ELSE Mismatch
    ELSE AltReplay(id, stk, log, i + 1)

(* C30: every ParserAlternative::unparse undoes the branch of the latest   *)
(* success of its node that is still pending and no other, and pops it:    *)
(* with several successes pending (the node entered again through a        *)
(* DeferredParser, or inside a repetition) the unparse calls undo them in  *)
(* the reverse order of the successes, each the branch its own attempt     *)
(* recorded, and whichs ends as the successes not undone.                  *)
C30_UndoOwnBranch ==
    [][(op' \in {"parse", "unparse"} /\ nops' = nops + 1) =>
           \A id \in AltIds :
               /\ AltReplay(id, st.ns[id].stk, st'.log, 1) # Mismatch
               /\ st'.err = "" =>
                      st'.ns[id].stk = AltReplay(id, st.ns[id].stk, st'.log, 1)]_vars

(* "aab": the innermost attempt took B, the two around it A; the unparse   *)
(* undoes A, A and then B                                                  *)
C30_Witness ==
    /\ gname = "anb" /\ op = "unparse" /\ nops = 2 /\ st.err = ""
    /\ st.buf = <<"a", "a", "b">> /\ st.pos = 0
    /\ pre.ns[<<"nst">>].stk = <<>> /\ st.ns[<<"nst">>].stk = <<>>
    /\ LET pops == SelectSeq(st.log, LAMBDA ev : ev.op = "whichs.pop")
       IN  [k \in 1..Len(pops) |-> pops[k].x] = <<WhichA, WhichA, WhichB>>
    /\ \E i \in LogIdx : \E j \in LogIdx :
           /\ i < j
           /\ st.log[i].op = "unalt" /\ st.log[i].x = WhichB
           /\ st.log[i - 1].n = <<"nst", 2>>
           /\ st.log[j].op = "unalt" /\ st.log[j].x = WhichA
           /\ st.log[j - 1].n = <<"nst", 1>>



----------------------------------------------------------------------------
(* Undo-log bookkeeping *)

(* the depths of the undo stacks of a node: whichs or the length stack     *)
(* counts_ of an integer or quoted string, and the skip stack              *)
Depths(n) == <<Len(n.stk), Len(n.skp)>>

(* the calls of node id in the history that returned with o and ok *)
CallsOf(id, o, ok) ==
    Cardinality({i \in 1..Len(st.log) :
                     st.log[i].n = id /\ st.log[i].op = o /\ st.log[i].ok = ok})

(* C31: undo-log bookkeeping.  For every node with an undo stack, after a  *)
(* top-level parse the depth of whichs / counts_ has grown by the node's   *)
(* successful parses less its unparses, and the skip stack likewise; a     *)
(* top-level parse that returned false, and an unparse of a successful     *)
(* one, leave every stack as deep as it was before the attempt.            *)
C31_UndoBookkeeping ==
    st.err = "" =>
        /\ op = "parse" =>
               \A id \in DOMAIN st.ns :
                   LET k == ExprAt(id).k IN
                   k \in {"alt", "int", "lit"} =>
                       Len(st.ns[id].stk) - Len(pre.ns[id].stk) =
                           CallsOf(id, k, TRUE) - CallsOf(id, "un" \o k, TRUE)
        /\ ((op = "parse" /\ ret = "false") \/ op = "unparse") =>
               \A id \in DOMAIN st.ns : Depths(st.ns[id]) = Depths(pre.ns[id])


----------------------------------------------------------------------------
(* Committed choice *)

InputABC == <<"a", "b", "c">>

(* C32: committed first-match choice.  In (A | B) >> C, when A matches at  *)
(* the cursor the chain returns what C returns right after A: B is never   *)
(* tried, and when C fails the alternative is undone through A and the     *)
(* chain returns false with the cursor back, also where B followed by C    *)
(* would match ("abc" with A = "a", B = "ab", C = "c").                    *)
C32_CommittedChoice ==
    (gname = "commit" /\ op = "parse" /\ st.err = "") =>
        LET g == Root(gname)
            alt == Kid(<<gname>>, 1)
            a == Match(g.a.a, Kid(alt, 1), pre.pos)
        IN  a.ok =>
                /\ ret = IF Match(g.b, Kid(<<gname>>, 2), a.e.pos).ok THEN "true" ELSE "false"
                /\ \A ev \in Events : ev.n # Kid(alt, 2)
                /\ ret = "false" =>
                       /\ st.pos = pre.pos
                       /\ \E ev \in Events : ev.n = alt /\ ev.op = "unalt" /\ ev.x = WhichA
                       /\ \E ev \in Events : ev.n = Kid(alt, 1) /\ ev.op = "unstr"

C32_Witness ==
    /\ gname = "commit" /\ op = "parse" /\ nops = 1 /\ st.buf = InputABC
    /\ ret = "false" /\ st.pos = 0
    /\ Match(StrN(<<"a", "b">>), Kid(Kid(<<gname>>, 1), 2), 0).e.pos = 2
    /\ Match(StrN(<<"c">>), Kid(<<gname>>, 2), 2).ok


----------------------------------------------------------------------------
(* Handing over the result *)

(* C33: the result is handed over once.  getResult of a string or an       *)
(* alternative right after a successful parse returns the value of the     *)
(* match (the text matched, blanks aside) and leaves result_ null; a       *)
(* getResult that follows another getResult returns null; so does a        *)
(* getResult with no successful parse before it; none stops the program.   *)
C33_ResultOnce ==
    [][op' = "take" =>
          /\ st'.err = ""
          /\ (op = "parse" /\ ret = "true") =>
                 /\ out' = StrV(Squeeze(SubSeq(st.buf, pre.pos + 1, st.pos)))
                 /\ st'.ns[<<gname>>].res = Null
          /\ op = "take" => out' = Null
          /\ pend = <<>> => out' = Null]_vars

C33_Witness ==
    /\ gname = "either" /\ op = "take" /\ st.buf = <<" ", "b">> /\ st.pos = 2
    /\ pend # <<>> /\ pre.ns[<<gname>>].res = Null /\ out = Null


----------------------------------------------------------------------------
(* Deferred parsers *)

(* the grammar the DeferredParser at the root holds, and its identity *)
Held0 == st.ops[Root(gname).d]
HeldId == <<Root(gname).d>>

RetOf(r) == IF r.e.err # "" THEN "none" ELSE IF r.ok THEN "true" ELSE "false"

(* C34: deferred transparency.  A parse or unparse through the             *)
(* DeferredParser returns what the parse / unparse of the grammar assigned *)
(* to it returns when called on the cursor itself from the same state, and *)
(* leaves the cursor at the same position (the byte a read outside the     *)
(* buffer finds being the same in both).                                   *)
C34_DeferredTransparent ==
    [][(nops' = nops + 1 /\ op' \in {"parse", "unparse"} /\ st'.err # "runaway") =>
          \E j \in Junk(gname) :
              /\ op' = "parse" =>
                     LET r == Parse(Held0, HeldId, Begin(st, j))
                     IN  ret' = RetOf(r) /\ st'.pos = r.e.pos /\ st'.err = r.e.err
              /\ op' = "unparse" =>
                     LET e == Unparse(Held0, HeldId, Begin(st, j))
                     IN  st'.pos = e.pos /\ st'.err = e.err]_vars

C34_Witness ==
    /\ gname = "anb" /\ st.buf = <<"a", "a", "b">> /\ op = "unparse" /\ nops = 2
    /\ pre.pos = 1 /\ st.pos = 1 /\ pend = <<>> /\ st.err = ""


----------------------------------------------------------------------------
(* Two runs of one grammar object *)

(* run i is over: its parse returned false, or its unparse returned *)
Over(i) ==
    LET r == runs.r[i] IN
    st.err = "" /\ r.m.mode = "halt" /\ (r.ph = "unparse" \/ ~r.m.ok)

(* C35: one grammar object run on two cursors, the runs interleaved node   *)
(* call by node call.  A run that is over (its parse failed, or succeeded  *)
(* and was unparsed) has its cursor back at the offset it started from     *)
(* unless one of its unparse calls popped an undo entry (choice marker or  *)
(* skip length) that the other run had pushed; the witness is such a run,  *)
(* whose cursor is left elsewhere.                                         *)
C35_InterleavingUnsafe ==
    \A i \in 1..2 :
        (Over(i) /\ runs.r[i].m.e.pos # 0) => runs.r[i].took

C35_Witness ==
    /\ Over(1) /\ runs.r[1].took /\ ~runs.r[2].took
    /\ runs.r[1].m.e.buf = <<" ", "a">> /\ runs.r[2].m.e.buf = <<"b">>
    /\ runs.r[1].m.e.pos = 1


----------------------------------------------------------------------------
(* Assertions *)

(* C36: no assertion of the engine fails during the first top-level parse  *)
(* of freshly constructed nodes, whatever the grammar and the input; in    *)
(* particular no Alternative.parse is stopped by its entry assertion.      *)
C36_NoAssertInParse ==
    (op = "parse" /\ nops = 1) =>
        /\ ~Asserted
        /\ \A i \in 1..Len(st.log) : st.log[i].op # "alt!"


----------------------------------------------------------------------------
(* Possessive repetition *)

(* the bytes from offset p on are repetitions of "a", blanks before each   *)
(* allowed, and nothing else                                               *)
OnlyAs(p) ==
    LET rest == Rest(st.buf, p) IN
    /\ \A i \in 1..Len(rest) : rest[i] \in {"a", " "}
    /\ rest # <<>> => rest[Len(rest)] = "a"

(* C37: repetition is possessive.  many(P) >> P on an input that consists  *)
(* only of repetitions of P returns false, the repetition having taken     *)
(* them all, and leaves the cursor where it was.                           *)
C37_Possessive ==
    (gname = "greedy" /\ op = "parse" /\ pre.pos >= 0 /\ OnlyAs(pre.pos)) =>
        (st.err = "" /\ ret = "false" /\ st.pos = pre.pos)


----------------------------------------------------------------------------
(* Termination *)

(* C38: parse of a grammar without left recursion returns: no top-level    *)
(* parse, of a repetition of a parser that can match without consuming     *)
(* included, makes more than MaxSteps node calls on an input of at most    *)
(* MaxLen bytes.                                                           *)
C38_ParseReturns ==
    st.err # "runaway"


----------------------------------------------------------------------------
(* Generator-backed iterator *)

(* C39: an iterator built with max_count = n >= 0 is ok() exactly until n  *)
(* advances are made, hands over the k-th generated value after k - 1      *)
(* advances, has called the generator at most n times, exactly n times     *)
(* once it is not ok, and throws only then; built with max_count = -1 it   *)
(* is ok() after any number of advances.                                   *)
C39_GeneratorCount ==
    /\ st.max >= 0 =>
           /\ GenOk(st) <=> st.adv < st.max
           /\ st.now = IF st.adv < st.max THEN st.adv + 1 ELSE st.max
           /\ op = "throw" => (st.adv = st.max /\ ~GenOk(st))
    /\ st.max = -1 => (GenOk(st) /\ op # "throw" /\ st.now = st.adv + 1)
    /\ op = "deref" => out = st.adv

C39_Witness ==
    /\ st.max = 3 /\ st.adv = 3 /\ st.now = 3 /\ op = "throw" /\ ~GenOk(st)


----------------------------------------------------------------------------
(* groupSame *)

(* the elements a sequence of groups stands for *)
RECURSIVE Flatten(_)
Flatten(gs) ==
    IF gs = <<>> THEN <<>>
    ELSE [i \in 1..Head(gs).count |-> Head(gs).t] \o Flatten(Tail(gs))

(* the groups handed out so far, the cached one included *)
Groups == IF st.cached_ THEN Append(st.got, st.after_) ELSE st.got

(* C40: groupSame yields one group per maximal run of equal elements, in   *)
(* order.  In every state the groups handed out so far, the cached one     *)
(* included, are the runs of the elements before the internal iterator:    *)
(* each carries its element and its length (at least 1), adjacent groups   *)
(* differ, and the internal iterator is at the first element after the     *)
(* cached group, which differs from the group's; the iterator stops being  *)
(* ok exactly when the internal one is at the end with nothing cached, so  *)
(* the counts then add up to the length of the input.                      *)
C40_GroupSame ==
    /\ Flatten(Groups) = SubSeq(st.vec, 1, st.beg)
    /\ \A i \in 1..Len(Groups) : Groups[i].count >= 1
    /\ \A i \in 1..(Len(Groups) - 1) : Groups[i].t # Groups[i + 1].t
    /\ (st.cached_ /\ st.beg < Len(st.vec)) => st.vec[st.beg + 1] # st.after_.t
    /\ ~st.cached_ => st.beg = Len(st.vec)
    /\ op = "deref" => out = st.after_

ThisThat == <<1, 1, 2, 2>>

C40_Witness ==
    /\ st.vec = ThisThat /\ ~st.cached_ /\ op = "advance"
    /\ st.got = <<[t |-> 1, count |-> 2], [t |-> 2, count |-> 2]>>

====
